------------------------- MODULE RecoveryBootProofs -------------------------
(***************************************************************************)
(* For every set of commands and every kind of device: what the restart    *)
(* protocol guarantees across any number of power losses.  And the hash    *)
(* table that the entries of a package are kept in.                        *)
(***************************************************************************)
EXTENDS RecoveryBoot, HashTable, FiniteSetTheorems, WellFoundedInduction, TLAPS

(* A leaf that names no prover is for Zenon; the ones that need arithmetic *)
(* or the theory of functions and records name SMT.                        *)
USE ZenonT(60)
USE DEF MenuInstalls

(* The lists of volumes that main() and the menu erase.                    *)
LEMMA VolumeLists ==
  /\ WipeDataVolumes \in Seq(Parts \ {"system"})
  /\ <<"cache">> \in Seq(Parts \ {"system"})
  /\ <<"data", "cache">> \o (IF HasDatadata THEN <<"datadata">> ELSE <<>>)
       \in Seq(Parts \ {"system"})
  /\ <<>> \in Seq(Parts \ {"system"})
<1>1. CASE HasDatadata
  <2>1. <<"data", "datadata", "cache">> \in Seq(Parts \ {"system"})
    BY SMTT(60) DEF Parts
  <2>2. <<"data", "cache">> \o <<"datadata">> \in Seq(Parts \ {"system"})
    BY SMTT(60) DEF Parts
  <2>3. <<"cache">> \in Seq(Parts \ {"system"}) /\ <<>> \in Seq(Parts \ {"system"})
    BY SMTT(60) DEF Parts
  <2> QED
    BY <1>1, <2>1, <2>2, <2>3 DEF WipeDataVolumes
<1>2. CASE ~HasDatadata
  <2>1. <<"data", "cache">> \in Seq(Parts \ {"system"})
    BY SMTT(60) DEF Parts
  <2>2. <<"data", "cache">> \o <<>> \in Seq(Parts \ {"system"})
    BY SMTT(60) DEF Parts
  <2>3. <<"cache">> \in Seq(Parts \ {"system"}) /\ <<>> \in Seq(Parts \ {"system"})
    BY SMTT(60) DEF Parts
  <2> QED
    BY <1>2, <2>1, <2>2, <2>3 DEF WipeDataVolumes
<1> QED
  BY <1>1, <1>2

(* What a process may hold, apart from the variables of the protocol.      *)
RunTypes ==
  /\ pc \in Pcs
  /\ ret \in {"prompt", "headless", "final", "reboot"}
  /\ task \in Tasks
  /\ todo \in Seq(Parts \ {"system"})
  /\ pc = "erasing" => todo # <<>>
  /\ args \in SUBSET Options
  /\ status \in {"success", "error"}
  /\ fw \in BOOLEAN

BootTypes ==
  /\ bcb \in Messages
  /\ commandFile \in SUBSET Options
  /\ intentFile \in BOOLEAN
  /\ part \in [Parts -> {"old", "half", "new"}]
  /\ raw \in [header: BOOLEAN, whole: BOOLEAN]

GhostTypes ==
  /\ request \in SUBSET Options
  /\ outcome \in {"none", "pending", "success", "error"}
  /\ job \in Tasks \cup {"firmware"}
  /\ excused \in SUBSET Parts
  /\ user \in BOOLEAN

(* The values that steps assign to the BCB and to the raw image.           *)
LEMMA MessageType ==
  /\ NoRaw \in [header: BOOLEAN, whole: BOOLEAN]
  /\ \A r \in SUBSET Options :
       /\ Bcb("boot-recovery", r) \in Messages
       /\ Bcb("", r) \in Messages
BY DEF Bcb, NoRaw, Messages

LEMMA OffTypes ==
  ASSUME PowerOff
  PROVE  RunTypes'
<1>1. todo' \in Seq(Parts \ {"system"})
  BY VolumeLists DEF PowerOff
<1>2. fw' \in BOOLEAN
  BY DEF PowerOff
<1> QED
  BY <1>1, <1>2 DEF PowerOff, RunTypes, Pcs, Tasks, Options

(* The process: every step keeps the program's own variables in range.     *)
LEMMA RunStep ==
  ASSUME RunTypes, BootTypes, [Next]_vars
  PROVE  RunTypes'
<1>1. CASE Crash \/ CrashInBcbWrite
  BY <1>1, OffTypes DEF Crash, CrashInBcbWrite
<1>2. CASE \E r \in Requests : MainWritesCommand(r)
  BY <1>2 DEF MainWritesCommand, runVars, RunTypes
<1>3. CASE MainRebootsIntoRecovery \/ BootloaderBoots \/ UserBootsRecovery \/ BootloaderFlashes
  BY <1>3 DEF MainRebootsIntoRecovery, BootloaderBoots, UserBootsRecovery,
                BootloaderFlashes, RunTypes, Pcs, RecoveryPcs
<1>4. CASE GetArgsRead
  BY <1>4 DEF GetArgsRead, RunTypes, Pcs, RecoveryPcs, BootTypes, Messages
<1>5. CASE GetArgsWrite
  BY <1>5 DEF GetArgsWrite, RunTypes, Pcs, RecoveryPcs
<1>6. CASE Dispatch
  BY <1>6, VolumeLists
     DEF Dispatch, RunTypes, Pcs, RecoveryPcs, Tasks, Commanded
<1>7. CASE ExtendedCommand
  BY <1>7 DEF ExtendedCommand, RunTypes, Pcs, RecoveryPcs
<1>8. CASE EraseStarts
  BY <1>8 DEF EraseStarts, RunTypes, Pcs, RecoveryPcs
<1>9. CASE EraseSucceeds
  BY <1>9, SMTT(60) DEF EraseSucceeds, RunTypes, Pcs, RecoveryPcs
<1>10. CASE EraseFails
  BY <1>10, SMTT(60) DEF EraseFails, RunTypes, Pcs, RecoveryPcs
<1>11. CASE EraseDone
  BY <1>11 DEF EraseDone, RunTypes, Pcs, RecoveryPcs, Tasks
<1>12. CASE SideloadCheck \/ InstallUntrusted
  BY <1>12 DEF SideloadCheck, InstallUntrusted, RunTypes, Pcs, RecoveryPcs, Tasks
<1>13. CASE InstallRejected \/ InstallFails
  BY <1>13 DEF InstallRejected, InstallFails, InstallReturns, RunTypes, Pcs,
                RecoveryPcs, Tasks
<1>14. CASE InstallStarts
  BY <1>14 DEF InstallStarts, RunTypes, Pcs, RecoveryPcs
<1>15. CASE InstallSucceeds
  BY <1>15, SMTT(60)
     DEF InstallSucceeds, InstallReturns, RunTypes, Pcs, RecoveryPcs, Tasks
<1>16. CASE AfterCommand
  BY <1>16 DEF AfterCommand, CallFinish, RunTypes, Pcs, RecoveryPcs
<1>17. CASE MenuChoice
  BY <1>17, VolumeLists
     DEF MenuChoice, CallFinish, RunTypes, Pcs, RecoveryPcs, Tasks
<1>18. CASE SetSdcardUpdateBootloaderMessage
  BY <1>18 DEF SetSdcardUpdateBootloaderMessage, RunTypes, Pcs, RecoveryPcs
<1>19. CASE HeadlessWait
  BY <1>19 DEF HeadlessWait, CallFinish, RunTypes, Pcs, RecoveryPcs
<1>20. CASE FinishIntent \/ FinishBcb
  BY <1>20 DEF FinishIntent, FinishBcb, RunTypes, Pcs, RecoveryPcs
<1>21. CASE FinishUnlink
  BY <1>21, OffTypes DEF FinishUnlink, CallFinish, RunTypes, Pcs, RecoveryPcs
<1>22. CASE FirmwareStarts
  BY <1>22 DEF FirmwareStarts, CallFinish, RunTypes, Pcs, RecoveryPcs
<1>23. CASE WriteZeroHeader \/ WriteImage \/ WriteHeader \/ WriteUpdateFails
  BY <1>23
     DEF WriteZeroHeader, WriteImage, WriteHeader, WriteUpdateFails, RunTypes,
         Pcs, RecoveryPcs
<1>24. CASE InstructBootloader
  BY <1>24, OffTypes DEF InstructBootloader, RunTypes, Pcs, RecoveryPcs
<1>25. CASE CleanCacheUp
  BY <1>25 DEF CleanCacheUp, CallFinish, RunTypes, Pcs, RecoveryPcs
<1>26. CASE UNCHANGED vars
  BY <1>26 DEF vars, runVars, RunTypes
<1> QED
  BY <1>1, <1>2, <1>3, <1>4, <1>5, <1>6, <1>7, <1>8, <1>9, <1>10, <1>11, <1>12,
     <1>13, <1>14, <1>15, <1>16, <1>17, <1>18, <1>19, <1>20, <1>21, <1>22,
     <1>23, <1>24, <1>25, <1>26
     DEF Next, Powered, MainSystem, Bootloader, Recovery, PowerLoss

(* The storage: the BCB, the files in /cache and the partitions.           *)
LEMMA BootStep ==
  ASSUME RunTypes, BootTypes, [Next]_vars
  PROVE  BootTypes'
<1>1. CASE Crash
  BY <1>1 DEF Crash, bootVars, BootTypes
<1>2. CASE CrashInBcbWrite
  BY <1>2, MessageType DEF CrashInBcbWrite, BlankBcb, BootTypes
<1>3. CASE \E r \in Requests : MainWritesCommand(r)
  BY <1>3, RequestsAssumption DEF MainWritesCommand, BootTypes
<1>4. CASE MainRebootsIntoRecovery \/ BootloaderBoots \/ UserBootsRecovery
  BY <1>4
     DEF MainRebootsIntoRecovery, BootloaderBoots, UserBootsRecovery, bootVars,
         BootTypes
<1>5. CASE BootloaderFlashes
  BY <1>5 DEF BootloaderFlashes, BootTypes, Messages
<1>6. CASE GetArgsRead \/ Dispatch \/ ExtendedCommand \/ EraseFails \/ EraseDone
           \/ SideloadCheck \/ InstallUntrusted \/ AfterCommand \/ MenuChoice \/ HeadlessWait
           \/ WriteUpdateFails
  <2>1. UNCHANGED bootVars
    BY <1>6
       DEF GetArgsRead, Dispatch, ExtendedCommand, EraseFails, EraseDone,
           SideloadCheck, InstallUntrusted, AfterCommand, MenuChoice, HeadlessWait,
           WriteUpdateFails
  <2> QED
    BY <2>1 DEF bootVars, BootTypes
<1>7. CASE GetArgsWrite
  <2>1. args \in SUBSET Options
    BY DEF RunTypes
  <2>2. bcb' = Bcb("boot-recovery", args) \/ bcb' = bcb
    BY <1>7 DEF GetArgsWrite, SetBcbUnchecked
  <2> QED
    BY <1>7, <2>1, <2>2, MessageType DEF GetArgsWrite, BootTypes
<1>8. CASE SetSdcardUpdateBootloaderMessage \/ FinishBcb
  <2>1. {} \in SUBSET Options
    OBVIOUS
  <2>2. bcb' = Bcb("boot-recovery", {}) \/ bcb' = Bcb("", {}) \/ bcb' = bcb
    BY <1>8 DEF SetSdcardUpdateBootloaderMessage, FinishBcb, SetBcbUnchecked
  <2> QED
    BY <1>8, <2>1, <2>2, MessageType
       DEF SetSdcardUpdateBootloaderMessage, FinishBcb, BootTypes
<1>9. CASE EraseStarts
  BY <1>9, MessageType DEF EraseStarts, DestroyPart, BootTypes
<1>10. CASE EraseSucceeds
  BY <1>10 DEF EraseSucceeds, BootTypes
<1>11. CASE InstallRejected \/ InstallFails
  BY <1>11 DEF InstallRejected, InstallFails, InstallReturns, BootTypes
<1>12. CASE InstallStarts
  BY <1>12 DEF InstallStarts, BootTypes
<1>13. CASE InstallSucceeds
  BY <1>13 DEF InstallSucceeds, InstallReturns, BootTypes
<1>14. CASE FinishIntent
  BY <1>14 DEF FinishIntent, BootTypes
<1>15. CASE FinishUnlink
  BY <1>15 DEF FinishUnlink, BootTypes
<1>16. CASE FirmwareStarts
  <2>1. FirmwareMessage \in SUBSET Options
    BY DEF FirmwareMessage, RunTypes, Options
  <2>2. bcb' = Bcb("boot-recovery", FirmwareMessage) \/ bcb' = bcb
    BY <1>16 DEF FirmwareStarts
  <2> QED
    BY <1>16, <2>1, <2>2, MessageType DEF FirmwareStarts, BootTypes
<1>17. CASE WriteZeroHeader
  BY <1>17, MessageType DEF WriteZeroHeader, DestroyPart, BootTypes
<1>18. CASE WriteImage \/ WriteHeader
  BY <1>18 DEF WriteImage, WriteHeader, BootTypes
<1>19. CASE InstructBootloader
  BY <1>19 DEF InstructBootloader, BootTypes, Messages
<1>20. CASE CleanCacheUp
  BY <1>20, MessageType DEF CleanCacheUp, BootTypes
<1>21. CASE UNCHANGED vars
  BY <1>21 DEF vars, bootVars, BootTypes
<1> QED
  BY <1>1, <1>2, <1>3, <1>4, <1>5, <1>6, <1>7, <1>8, <1>9, <1>10, <1>11,
     <1>12, <1>13, <1>14, <1>15, <1>16, <1>17, <1>18, <1>19, <1>20, <1>21
     DEF Next, Powered, MainSystem, Bootloader, Recovery, PowerLoss

(* The history.                                                            *)
LEMMA GhostStep ==
  ASSUME RunTypes, GhostTypes, [Next]_vars
  PROVE  GhostTypes'
<1>1. CASE Crash \/ CrashInBcbWrite \/ MainRebootsIntoRecovery \/ BootloaderBoots
           \/ BootloaderFlashes \/ GetArgsRead \/ GetArgsWrite \/ ExtendedCommand
           \/ MenuChoice \/ SetSdcardUpdateBootloaderMessage \/ HeadlessWait
           \/ FinishIntent \/ FinishBcb \/ FinishUnlink \/ FirmwareStarts \/ WriteImage
           \/ WriteHeader \/ WriteUpdateFails \/ InstructBootloader
  <2>1. UNCHANGED ghostVars
    BY <1>1
       DEF Crash, CrashInBcbWrite, MainRebootsIntoRecovery, BootloaderBoots,
           BootloaderFlashes, GetArgsRead, GetArgsWrite, ExtendedCommand,
           MenuChoice, SetSdcardUpdateBootloaderMessage, HeadlessWait,
           FinishIntent, FinishBcb, FinishUnlink, FirmwareStarts, WriteImage,
           WriteHeader, WriteUpdateFails, InstructBootloader, ghostVars
  <2> QED
    BY <2>1 DEF ghostVars, GhostTypes
<1>2. CASE \E r \in Requests : MainWritesCommand(r)
  BY <1>2, RequestsAssumption DEF MainWritesCommand, GhostTypes
<1>3. CASE UserBootsRecovery
  BY <1>3 DEF UserBootsRecovery, GhostTypes
<1>4. CASE Dispatch
  BY <1>4 DEF Dispatch, GhostTypes, Tasks
<1>5. CASE EraseStarts
  BY <1>5, SMTT(60) DEF EraseStarts, RunTypes, GhostTypes, Tasks
<1>6. CASE EraseSucceeds
  BY <1>6 DEF EraseSucceeds, GhostTypes
<1>7. CASE EraseFails
  BY <1>7, SMTT(60) DEF EraseFails, RunTypes, GhostTypes
<1>8. CASE EraseDone
  BY <1>8 DEF EraseDone, RunTypes, GhostTypes, Tasks
<1>9. CASE SideloadCheck \/ InstallUntrusted \/ AfterCommand
  BY <1>9 DEF SideloadCheck, InstallUntrusted, AfterCommand, ghostVars, GhostTypes
<1>10. CASE InstallRejected \/ InstallFails
  BY <1>10
     DEF InstallRejected, InstallFails, InstallReturns, GhostTypes, Tasks,
         Parts
<1>11. CASE InstallStarts
  BY <1>11 DEF InstallStarts, RunTypes, GhostTypes, Parts
<1>12. CASE InstallSucceeds
  BY <1>12 DEF InstallSucceeds, InstallReturns, GhostTypes, Tasks
<1>13. CASE WriteZeroHeader
  BY <1>13 DEF WriteZeroHeader, GhostTypes
<1>14. CASE CleanCacheUp
  BY <1>14 DEF CleanCacheUp, GhostTypes, Tasks, Parts
<1>15. CASE UNCHANGED vars
  BY <1>15 DEF vars, ghostVars, GhostTypes
<1> QED
  BY <1>1, <1>2, <1>3, <1>4, <1>5, <1>6, <1>7, <1>8, <1>9, <1>10, <1>11,
     <1>12, <1>13, <1>14, <1>15
     DEF Next, Powered, MainSystem, Bootloader, Recovery, PowerLoss

(* A header is valid only while what it refers to is on the partition:     *)
(* whoever reformats /cache has destroyed the header first.                *)
LEMMA HeaderStep ==
  ASSUME RunTypes, BootTypes, HeaderLast, RawInv, [Next]_vars
  PROVE  HeaderLast' /\ RawInv'
<1>1. CASE Crash \/ CrashInBcbWrite \/ MainRebootsIntoRecovery \/ BootloaderBoots
           \/ UserBootsRecovery \/ BootloaderFlashes
  BY <1>1
     DEF Crash, CrashInBcbWrite, PowerOff, MainRebootsIntoRecovery,
         BootloaderBoots, UserBootsRecovery, BootloaderFlashes, bootVars,
         HeaderLast, RawInv
<1>2. CASE \E r \in Requests : MainWritesCommand(r)
  BY <1>2 DEF MainWritesCommand, runVars, BootTypes, Parts, HeaderLast, RawInv
<1>3. CASE GetArgsRead \/ GetArgsWrite \/ Dispatch \/ ExtendedCommand \/ EraseFails
           \/ EraseDone \/ SideloadCheck \/ InstallUntrusted \/ AfterCommand \/ MenuChoice
           \/ SetSdcardUpdateBootloaderMessage \/ HeadlessWait
  BY <1>3
     DEF GetArgsRead, GetArgsWrite, Dispatch, ExtendedCommand, EraseFails,
         EraseDone, SideloadCheck, InstallUntrusted, AfterCommand, MenuChoice, CallFinish,
         SetSdcardUpdateBootloaderMessage, HeadlessWait, bootVars, HeaderLast,
         RawInv
<1>4. CASE EraseStarts
  BY <1>4, SMTT(60)
     DEF EraseStarts, DestroyPart, NoRaw, RunTypes, BootTypes, Parts,
         HeaderLast, RawInv
<1>5. CASE EraseSucceeds
  BY <1>5 DEF EraseSucceeds, RunTypes, BootTypes, Parts, HeaderLast, RawInv
<1>6. CASE InstallRejected \/ InstallFails
  BY <1>6 DEF InstallRejected, InstallFails, InstallReturns, HeaderLast, RawInv
<1>7. CASE InstallStarts
  BY <1>7 DEF InstallStarts, BootTypes, Parts, HeaderLast, RawInv
<1>8. CASE InstallSucceeds
  BY <1>8
     DEF InstallSucceeds, InstallReturns, BootTypes, Parts, HeaderLast, RawInv
<1>9. CASE FinishIntent \/ FinishBcb \/ FinishUnlink
  BY <1>9
     DEF FinishIntent, FinishBcb, FinishUnlink, CallFinish, PowerOff,
         HeaderLast, RawInv
<1>10. CASE FirmwareStarts
  BY <1>10 DEF FirmwareStarts, CallFinish, HeaderLast, RawInv
<1>11. CASE WriteZeroHeader
  BY <1>11, SMTT(60)
     DEF WriteZeroHeader, DestroyPart, NoRaw, BootTypes, Parts, HeaderLast,
         RawInv
<1>12. CASE WriteImage
  BY <1>12 DEF WriteImage, BootTypes, HeaderLast, RawInv
<1>13. CASE WriteHeader
  BY <1>13 DEF WriteHeader, BootTypes, HeaderLast, RawInv
<1>14. CASE WriteUpdateFails \/ InstructBootloader
  BY <1>14
     DEF WriteUpdateFails, InstructBootloader, PowerOff, bootVars, HeaderLast,
         RawInv
<1>15. CASE CleanCacheUp
  BY <1>15, SMTT(60) DEF CleanCacheUp, CallFinish, NoRaw, HeaderLast, RawInv
<1>16. CASE UNCHANGED vars
  BY <1>16 DEF vars, bootVars, runVars, HeaderLast, RawInv
<1> QED
  BY <1>1, <1>2, <1>3, <1>4, <1>5, <1>6, <1>7, <1>8, <1>9, <1>10, <1>11,
     <1>12, <1>13, <1>14, <1>15, <1>16
     DEF Next, Powered, MainSystem, Bootloader, Recovery, PowerLoss

(* The volumes of a list are its first and those of its rest.              *)
LEMMA VolumesOfList ==
  /\ \A s \in Seq(Parts \ {"system"}) :
       s # <<>> => /\ Volumes(s) = {Head(s)} \cup Volumes(Tail(s))
                   /\ Head(s) \in Parts \ {"system"}
                   /\ Tail(s) \in Seq(Parts \ {"system"})
  /\ Volumes(<<"cache">>) = {"cache"}
  /\ Volumes(<<>>) = {}
<1>1. ASSUME NEW s \in Seq(Parts \ {"system"}), s # <<>>
      PROVE  /\ Volumes(s) = {Head(s)} \cup Volumes(Tail(s))
             /\ Head(s) \in Parts \ {"system"}
             /\ Tail(s) \in Seq(Parts \ {"system"})
  <2>1. /\ Len(s) \in Nat /\ Len(s) # 0 /\ Head(s) = s[1]
        /\ Head(s) \in Parts \ {"system"}
        /\ Tail(s) \in Seq(Parts \ {"system"}) /\ Len(Tail(s)) = Len(s) - 1
        /\ \A n \in 1..(Len(s) - 1) : Tail(s)[n] = s[n + 1]
    BY <1>1, SMTT(60)
  <2>2. ASSUME NEW v \in Volumes(s)
        PROVE  v \in {Head(s)} \cup Volumes(Tail(s))
    <3>1. PICK n \in 1..Len(s) : v = s[n]
      BY DEF Volumes
    <3>2. CASE n = 1
      BY <2>1, <3>1, <3>2
    <3>3. CASE n # 1
      <4>1. n - 1 \in 1..(Len(s) - 1) /\ Tail(s)[n - 1] = s[n]
        BY <2>1, <3>1, <3>3, SMTT(60)
      <4> QED
        BY <2>1, <3>1, <4>1 DEF Volumes
    <3> QED
      BY <3>2, <3>3
  <2>3. ASSUME NEW v \in {Head(s)} \cup Volumes(Tail(s))
        PROVE  v \in Volumes(s)
    <3>1. CASE v = Head(s)
      BY <2>1, <3>1, SMTT(60) DEF Volumes
    <3>2. CASE v \in Volumes(Tail(s))
      <4>1. PICK n \in 1..(Len(s) - 1) : v = s[n + 1]
        BY <2>1, <3>2 DEF Volumes
      <4>2. n + 1 \in 1..Len(s)
        BY <2>1, SMTT(60)
      <4> QED
        BY <4>1, <4>2 DEF Volumes
    <3> QED
      BY <3>1, <3>2
  <2> QED
    BY <2>1, <2>2, <2>3
<1>2. Volumes(<<"cache">>) = {"cache"} /\ Volumes(<<>>) = {}
  BY SMTT(60) DEF Volumes
<1> QED
  BY <1>1, <1>2

(* While a command is carried out the BCB holds that command.              *)
LEMMA BcbStep ==
  ASSUME BcbWorks, RunTypes, BootTypes, TaskInv, BcbInv, [Next]_vars
  PROVE  BcbInv'
<1> USE DEF BcbWorks
<1>1. CASE Crash \/ CrashInBcbWrite
  BY <1>1
     DEF Crash, CrashInBcbWrite, PowerOff, BcbInv, CommandPcs, ErasePcs,
         InstallPcs, FirmwarePcs
<1>2. CASE \E r \in Requests : MainWritesCommand(r)
  BY <1>2
     DEF MainWritesCommand, runVars, BcbInv, CommandPcs, ErasePcs, InstallPcs,
         FirmwarePcs
<1>3. CASE MainRebootsIntoRecovery \/ BootloaderBoots \/ UserBootsRecovery \/ BootloaderFlashes
  BY <1>3
     DEF MainRebootsIntoRecovery, BootloaderBoots, UserBootsRecovery,
         BootloaderFlashes, bootVars, BootTypes, Messages, BcbInv, CommandPcs,
         ErasePcs, InstallPcs, FirmwarePcs
<1>4. CASE GetArgsRead
  BY <1>4
     DEF GetArgsRead, bootVars, BcbInv, CommandPcs, ErasePcs, InstallPcs,
         FirmwarePcs
<1>5. CASE GetArgsWrite
  BY <1>5, SMTT(60)
     DEF GetArgsWrite, SetBcbUnchecked, Bcb, BcbInv, CommandPcs, ErasePcs,
         InstallPcs, FirmwarePcs
<1>6. CASE Dispatch
  BY <1>6
     DEF Dispatch, bootVars, BcbInv, CommandPcs, ErasePcs, InstallPcs,
         FirmwarePcs
<1>7. CASE ExtendedCommand
  BY <1>7
     DEF ExtendedCommand, bootVars, BcbInv, CommandPcs, ErasePcs, InstallPcs,
         FirmwarePcs
<1>8. CASE EraseStarts
  BY <1>8
     DEF EraseStarts, BcbInv, CommandPcs, ErasePcs, InstallPcs, FirmwarePcs
<1>9. CASE EraseSucceeds
  BY <1>9
     DEF EraseSucceeds, BcbInv, CommandPcs, ErasePcs, InstallPcs, FirmwarePcs
<1>10. CASE EraseFails
  BY <1>10
     DEF EraseFails, bootVars, BcbInv, CommandPcs, ErasePcs, InstallPcs,
         FirmwarePcs
<1>11. CASE EraseDone
  BY <1>11
     DEF EraseDone, bootVars, BcbInv, CommandPcs, ErasePcs, InstallPcs,
         FirmwarePcs
<1>12. CASE SideloadCheck \/ InstallUntrusted
  BY <1>12
     DEF SideloadCheck, InstallUntrusted, bootVars, BcbInv, CommandPcs, ErasePcs, InstallPcs,
         FirmwarePcs
<1>13. CASE InstallRejected \/ InstallFails
  BY <1>13
     DEF InstallRejected, InstallFails, InstallReturns, BcbInv, CommandPcs,
         ErasePcs, InstallPcs, FirmwarePcs
<1>14. CASE InstallStarts
  BY <1>14
     DEF InstallStarts, BcbInv, CommandPcs, ErasePcs, InstallPcs, FirmwarePcs
<1>15. CASE InstallSucceeds
  BY <1>15, SMTT(60)
     DEF InstallSucceeds, InstallReturns, BcbInv, CommandPcs, ErasePcs,
         InstallPcs, FirmwarePcs
<1>16. CASE AfterCommand
  BY <1>16
     DEF AfterCommand, CallFinish, bootVars, BcbInv, CommandPcs, ErasePcs,
         InstallPcs, FirmwarePcs
<1>17. CASE MenuChoice
  BY <1>17
     DEF MenuChoice, CallFinish, bootVars, Commanded, BcbInv, CommandPcs,
         ErasePcs, InstallPcs, FirmwarePcs
<1>18. CASE SetSdcardUpdateBootloaderMessage
  BY <1>18, SMTT(60)
     DEF SetSdcardUpdateBootloaderMessage, SetBcbUnchecked, Bcb, TaskInv,
         BcbInv, CommandPcs, ErasePcs, InstallPcs, FirmwarePcs
<1>19. CASE HeadlessWait
  BY <1>19
     DEF HeadlessWait, CallFinish, bootVars, BcbInv, CommandPcs, ErasePcs,
         InstallPcs, FirmwarePcs
<1>20. CASE FinishIntent
  BY <1>20
     DEF FinishIntent, BcbInv, CommandPcs, ErasePcs, InstallPcs, FirmwarePcs
<1>21. CASE FinishBcb
  <2>1. bcb' = Bcb("", {}) /\ pc' = "finish_unlink"
    BY <1>21 DEF FinishBcb, SetBcbUnchecked
  <2>2. bcb'.command = ""
    BY <2>1 DEF Bcb
  <2> QED
    BY <2>1, <2>2 DEF BcbInv, CommandPcs, ErasePcs, InstallPcs, FirmwarePcs
<1>22. CASE FinishUnlink
  BY <1>22
     DEF FinishUnlink, CallFinish, PowerOff, BcbInv, CommandPcs, ErasePcs,
         InstallPcs, FirmwarePcs
<1>23. CASE FirmwareStarts
  BY <1>23, SMTT(60)
     DEF FirmwareStarts, CallFinish, FirmwareMessage, Bcb, BcbInv, CommandPcs,
         ErasePcs, InstallPcs, FirmwarePcs
<1>24. CASE WriteZeroHeader \/ WriteImage \/ WriteHeader \/ WriteUpdateFails
  BY <1>24
     DEF WriteZeroHeader, WriteImage, WriteHeader, WriteUpdateFails, bootVars,
         FirmwareMessage, BcbInv, CommandPcs, ErasePcs, InstallPcs, FirmwarePcs
<1>25. CASE InstructBootloader
  BY <1>25
     DEF InstructBootloader, PowerOff, BcbInv, CommandPcs, ErasePcs,
         InstallPcs, FirmwarePcs
<1>26. CASE CleanCacheUp
  BY <1>26
     DEF CleanCacheUp, CallFinish, BcbInv, CommandPcs, ErasePcs, InstallPcs,
         FirmwarePcs
<1>27. CASE UNCHANGED vars
  BY <1>27
     DEF vars, bootVars, runVars, FirmwareMessage, BcbInv, CommandPcs,
         ErasePcs, InstallPcs, FirmwarePcs
<1> QED
  BY <1>1, <1>2, <1>3, <1>4, <1>5, <1>6, <1>7, <1>8, <1>9, <1>10, <1>11,
     <1>12, <1>13, <1>14, <1>15, <1>16, <1>17, <1>18, <1>19, <1>20, <1>21,
     <1>22, <1>23, <1>24, <1>25, <1>26, <1>27
     DEF Next, Powered, MainSystem, Bootloader, Recovery, PowerLoss

(* What is being erased or installed is what the arguments ask for.        *)
LEMMA TaskStep ==
  ASSUME RunTypes, TaskInv, [Next]_vars
  PROVE  TaskInv'
<1>1. CASE Crash \/ CrashInBcbWrite \/ MainRebootsIntoRecovery \/ BootloaderBoots
           \/ UserBootsRecovery \/ BootloaderFlashes
  BY <1>1
     DEF Crash, CrashInBcbWrite, PowerOff, MainRebootsIntoRecovery,
         BootloaderBoots, UserBootsRecovery, BootloaderFlashes, TaskInv,
         ErasePcs, InstallPcs
<1>2. CASE \E r \in Requests : MainWritesCommand(r)
  BY <1>2 DEF MainWritesCommand, runVars, TaskInv, ErasePcs, InstallPcs
<1>3. CASE GetArgsRead \/ GetArgsWrite \/ ExtendedCommand \/ EraseDone \/ AfterCommand
           \/ SetSdcardUpdateBootloaderMessage \/ HeadlessWait
  BY <1>3
     DEF Commanded, GetArgsRead, GetArgsWrite, ExtendedCommand, EraseDone,
         AfterCommand, CallFinish, SetSdcardUpdateBootloaderMessage,
         HeadlessWait, TaskInv, ErasePcs, InstallPcs
<1>4. CASE Dispatch
  BY <1>4, VolumesOfList, SMTT(60)
     DEF Dispatch, Redo, Commanded, TaskInv, ErasePcs, InstallPcs
<1>5. CASE EraseStarts
  BY <1>5 DEF EraseStarts, TaskInv, ErasePcs, InstallPcs
<1>6. CASE EraseSucceeds \/ EraseFails
  BY <1>6, VolumesOfList
     DEF EraseSucceeds, EraseFails, RunTypes, TaskInv, ErasePcs, InstallPcs
<1>7. CASE SideloadCheck \/ InstallUntrusted
  BY <1>7 DEF SideloadCheck, InstallUntrusted, TaskInv, ErasePcs, InstallPcs
<1>8. CASE InstallRejected \/ InstallFails
  BY <1>8
     DEF InstallRejected, InstallFails, InstallReturns, TaskInv, ErasePcs,
         InstallPcs
<1>9. CASE InstallStarts
  BY <1>9 DEF InstallStarts, TaskInv, ErasePcs, InstallPcs
<1>10. CASE InstallSucceeds
  BY <1>10 DEF InstallSucceeds, InstallReturns, TaskInv, ErasePcs, InstallPcs
<1>11. CASE MenuChoice
  BY <1>11 DEF MenuChoice, CallFinish, Commanded, TaskInv, ErasePcs, InstallPcs
<1>12. CASE FinishIntent \/ FinishBcb \/ FinishUnlink
  BY <1>12
     DEF FinishIntent, FinishBcb, FinishUnlink, CallFinish, PowerOff, TaskInv,
         ErasePcs, InstallPcs
<1>13. CASE FirmwareStarts \/ WriteZeroHeader \/ WriteImage \/ WriteHeader
           \/ WriteUpdateFails \/ InstructBootloader \/ CleanCacheUp
  BY <1>13
     DEF FirmwareStarts, WriteZeroHeader, WriteImage, WriteHeader,
         WriteUpdateFails, InstructBootloader, CleanCacheUp, CallFinish,
         PowerOff, TaskInv, ErasePcs, InstallPcs
<1>14. CASE UNCHANGED vars
  BY <1>14 DEF vars, runVars, TaskInv, ErasePcs, InstallPcs
<1> QED
  BY <1>1, <1>2, <1>3, <1>4, <1>5, <1>6, <1>7, <1>8, <1>9, <1>10, <1>11,
     <1>12, <1>13, <1>14
     DEF Next, Powered, MainSystem, Bootloader, Recovery, PowerLoss

(* After a firmware update only /cache is left to be done.                 *)
LEMMA FirmwareRedo ==
  Redo(FirmwareMessage) = {"cache"} /\ "wipe_cache" \in FirmwareMessage
BY DEF Redo, FirmwareMessage

(* No step forgets a half-written partition.                               *)
LEMMA HalfStep ==
  ASSUME BcbWorks, RunTypes, BootTypes, TaskInv, BcbInv, HalfInv, [Next]_vars
  PROVE  HalfInv'
<1> USE DEF BcbWorks
<1>1. CASE Crash
  <2>1. UNCHANGED <<part, excused, bcb>> /\ pc' = "off"
    BY <1>1 DEF Crash, PowerOff, bootVars, ghostVars
  <2>2. Pending' = IF bcb.command = "" THEN {} ELSE Redo(bcb.recovery)
    BY <2>1 DEF Pending, ErasePcs, InstallPcs, FirmwarePcs
  <2>3. Pending \subseteq Pending'
    <3>1. CASE pc \in {"flash", "get_args", "get_args_bcb"}
      BY <2>2, <3>1 DEF Pending, ErasePcs, InstallPcs, FirmwarePcs
    <3>2. CASE pc \in CommandPcs \cup ErasePcs \cup InstallPcs
      <4>1. CASE \/ pc \in ErasePcs /\ task = "menu_wipe"
                 \/ pc \in InstallPcs /\ task \in MenuInstalls
        BY <4>1 DEF Pending, Commanded, ErasePcs, InstallPcs, FirmwarePcs
      <4>2. CASE /\ ~(pc \in ErasePcs /\ task = "menu_wipe")
                 /\ ~(pc \in InstallPcs /\ task \in MenuInstalls)
        <5>1. bcb = Bcb("boot-recovery", args)
          <6>1. \/ pc \in CommandPcs
                \/ pc \in ErasePcs /\ task \in Commanded
                \/ pc \in InstallPcs /\ task \notin MenuInstalls
            BY <3>2, <4>2 DEF TaskInv, Commanded
          <6> QED
            BY <6>1 DEF BcbInv
        <5>2. Pending' = Redo(args)
          BY <2>2, <5>1 DEF Bcb
        <5>3. Pending \subseteq Redo(args)
          <6>1. CASE pc = "dispatch"
            BY <6>1 DEF Pending, ErasePcs, InstallPcs, FirmwarePcs
          <6>2. CASE pc \in {"extendedcommand", "sideload"}
            BY <6>2 DEF Pending, Redo, ErasePcs, InstallPcs, FirmwarePcs
          <6>3. CASE pc \in ErasePcs
            BY <6>3
               DEF Pending, Redo, TaskInv, ErasePcs, InstallPcs, FirmwarePcs
          <6>4. CASE pc \in InstallPcs
            BY <4>2, <6>4
               DEF Pending, Redo, TaskInv, Commanded, ErasePcs, InstallPcs,
                   FirmwarePcs
          <6> QED
            BY <3>2, <6>1, <6>2, <6>3, <6>4 DEF CommandPcs
        <5> QED
          BY <5>2, <5>3
      <4> QED
        BY <4>1, <4>2
    <3>3. CASE pc \in FirmwarePcs
      <4>1. bcb = Bcb("boot-recovery", FirmwareMessage)
        BY <3>3 DEF BcbInv
      <4>2. bcb.command # "" /\ Redo(bcb.recovery) = {"cache"}
        BY <4>1, FirmwareRedo DEF Bcb
      <4>3. Pending = {"cache"}
        BY <3>3 DEF Pending, ErasePcs, InstallPcs, FirmwarePcs
      <4> QED
        BY <2>2, <4>2, <4>3
    <3>4. CASE pc \notin {"flash", "get_args", "get_args_bcb"} \cup CommandPcs \cup ErasePcs
                        \cup InstallPcs \cup FirmwarePcs
      BY <1>1, <3>4 DEF Crash, Pending, CommandPcs
    <3> QED
      BY <3>1, <3>2, <3>3, <3>4
  <2> QED
    BY <2>1, <2>3 DEF HalfInv
<1>2. CASE CrashInBcbWrite
  BY <1>2 DEF CrashInBcbWrite
<1>3. CASE \E r \in Requests : MainWritesCommand(r)
  BY <1>3
     DEF MainWritesCommand, runVars, HalfInv, Pending, ErasePcs, InstallPcs,
         FirmwarePcs
<1>4. CASE MainRebootsIntoRecovery
  BY <1>4
     DEF MainRebootsIntoRecovery, bootVars, ghostVars, HalfInv, Pending,
         ErasePcs, InstallPcs, FirmwarePcs
<1>5. CASE BootloaderBoots
  BY <1>5
     DEF BootloaderBoots, bootVars, ghostVars, BootTypes, Messages, HalfInv,
         Pending, ErasePcs, InstallPcs, FirmwarePcs
<1>6. CASE UserBootsRecovery
  BY <1>6
     DEF UserBootsRecovery, bootVars, HalfInv, Pending, ErasePcs, InstallPcs,
         FirmwarePcs
<1>7. CASE BootloaderFlashes
  BY <1>7
     DEF BootloaderFlashes, BootTypes, Messages, HalfInv, Pending, ErasePcs,
         InstallPcs, FirmwarePcs
<1>8. CASE GetArgsRead
  BY <1>8
     DEF GetArgsRead, bootVars, ghostVars, HalfInv, Pending, ErasePcs,
         InstallPcs, FirmwarePcs
<1>9. CASE GetArgsWrite
  BY <1>9
     DEF GetArgsWrite, ghostVars, Redo, BcbInv, HalfInv, Pending, ErasePcs,
         InstallPcs, FirmwarePcs
<1>10. CASE Dispatch
  <2>1. pc = "dispatch" /\ UNCHANGED <<part, excused, args>>
    BY <1>10 DEF Dispatch, bootVars
  <2>2. CASE pc' = "install" /\ "update_package" \in args /\ task' = "update_package"
    BY <2>1, <2>2 DEF Redo, HalfInv, Pending, ErasePcs, InstallPcs, FirmwarePcs
  <2>3. CASE /\ pc' = "erase" /\ "update_package" \notin args /\ "wipe_data" \in args
             /\ task' = "wipe_data" /\ todo' = WipeDataVolumes
    BY <2>1, <2>3
       DEF Redo, Commanded, HalfInv, Pending, ErasePcs, InstallPcs, FirmwarePcs
  <2>4. CASE /\ pc' = "erase" /\ "update_package" \notin args /\ "wipe_data" \notin args
             /\ task' = "wipe_cache" /\ todo' = <<"cache">>
    BY <2>1, <2>4, VolumesOfList
       DEF Redo, Commanded, HalfInv, Pending, ErasePcs, InstallPcs, FirmwarePcs
  <2>5. CASE /\ pc' = "extendedcommand" /\ "update_package" \notin args
             /\ "wipe_data" \notin args /\ "wipe_cache" \notin args
    BY <2>1, <2>5 DEF Redo, HalfInv, Pending, ErasePcs, InstallPcs, FirmwarePcs
  <2> QED
    BY <1>10, <2>2, <2>3, <2>4, <2>5, SMTT(60) DEF Dispatch, UserInitiated, Commanded
<1>11. CASE ExtendedCommand
  BY <1>11
     DEF ExtendedCommand, bootVars, ghostVars, HalfInv, Pending, ErasePcs,
         InstallPcs, FirmwarePcs
<1>12. CASE EraseStarts
  BY <1>12, VolumesOfList, SMTT(60)
     DEF EraseStarts, DestroyPart, RunTypes, BootTypes, HalfInv, Pending,
         ErasePcs, InstallPcs, FirmwarePcs
<1>13. CASE EraseSucceeds
  BY <1>13, VolumesOfList
     DEF EraseSucceeds, RunTypes, BootTypes, HalfInv, Pending, ErasePcs,
         InstallPcs, FirmwarePcs
<1>14. CASE EraseFails
  BY <1>14, VolumesOfList
     DEF EraseFails, bootVars, RunTypes, HalfInv, Pending, ErasePcs,
         InstallPcs, FirmwarePcs
<1>15. CASE EraseDone
  BY <1>15, VolumesOfList
     DEF EraseDone, CallFinish, bootVars, Commanded, HalfInv, Pending,
         ErasePcs, InstallPcs, FirmwarePcs
<1>16. CASE SideloadCheck \/ InstallUntrusted
  BY <1>16
     DEF SideloadCheck, InstallUntrusted, bootVars, ghostVars, HalfInv, Pending, ErasePcs,
         InstallPcs,
         FirmwarePcs
<1>17. CASE InstallRejected \/ InstallFails
  BY <1>17
     DEF InstallRejected, InstallFails, InstallReturns, HalfInv, Pending,
         ErasePcs, InstallPcs, FirmwarePcs
<1>18. CASE InstallStarts
  BY <1>18
     DEF InstallStarts, BootTypes, HalfInv, Pending, ErasePcs, InstallPcs,
         FirmwarePcs
<1>19. CASE InstallSucceeds
  BY <1>19
     DEF InstallSucceeds, InstallReturns, BootTypes, HalfInv, Pending,
         ErasePcs, InstallPcs, FirmwarePcs
<1>20. CASE AfterCommand
  BY <1>20
     DEF AfterCommand, CallFinish, bootVars, HalfInv, Pending, ErasePcs,
         InstallPcs, FirmwarePcs
<1>21. CASE MenuChoice
  BY <1>21
     DEF MenuChoice, CallFinish, bootVars, ghostVars, Commanded, HalfInv,
         Pending, ErasePcs, InstallPcs, FirmwarePcs
<1>22. CASE SetSdcardUpdateBootloaderMessage \/ HeadlessWait
  BY <1>22
     DEF SetSdcardUpdateBootloaderMessage, HeadlessWait, CallFinish, bootVars,
         ghostVars, TaskInv, HalfInv, Pending, ErasePcs, InstallPcs,
         FirmwarePcs
<1>23. CASE FinishIntent \/ FinishBcb \/ FinishUnlink
  BY <1>23
     DEF FinishIntent, FinishBcb, FinishUnlink, CallFinish, PowerOff,
         ghostVars, HalfInv, Pending, ErasePcs, InstallPcs, FirmwarePcs
<1>24. CASE FirmwareStarts
  BY <1>24
     DEF FirmwareStarts, CallFinish, HalfInv, Pending, ErasePcs, InstallPcs,
         FirmwarePcs
<1>25. CASE WriteZeroHeader
  BY <1>25
     DEF WriteZeroHeader, DestroyPart, BootTypes, HalfInv, Pending, ErasePcs,
         InstallPcs, FirmwarePcs
<1>26. CASE WriteImage \/ WriteHeader \/ WriteUpdateFails
  BY <1>26
     DEF WriteImage, WriteHeader, WriteUpdateFails, bootVars, ghostVars,
         HalfInv, Pending, ErasePcs, InstallPcs, FirmwarePcs
<1>27. CASE InstructBootloader
  <2>1. pc = "fw_update" /\ pc' = "off" /\ UNCHANGED <<part, excused>>
    BY <1>27 DEF InstructBootloader, PowerOff, ghostVars
  <2>2. bcb = Bcb("boot-recovery", FirmwareMessage)
    BY <2>1 DEF BcbInv, FirmwarePcs
  <2>3. bcb'.command # "" /\ Redo(bcb'.recovery) = {"cache"}
    BY <1>27, <2>2, FirmwareRedo DEF InstructBootloader, Bcb
  <2>4. Pending = {"cache"} /\ Pending' = {"cache"}
    BY <2>1, <2>3 DEF Pending, ErasePcs, InstallPcs, FirmwarePcs
  <2> QED
    BY <2>1, <2>4 DEF HalfInv
<1>28. CASE CleanCacheUp
  BY <1>28, SMTT(60)
     DEF CleanCacheUp, CallFinish, BootTypes, HalfInv, Pending, ErasePcs,
         InstallPcs, FirmwarePcs
<1>29. CASE UNCHANGED vars
  BY <1>29
     DEF vars, bootVars, runVars, ghostVars, HalfInv, Pending, ErasePcs,
         InstallPcs, FirmwarePcs
<1> QED
  BY <1>1, <1>2, <1>3, <1>4, <1>5, <1>6, <1>7, <1>8, <1>9, <1>10, <1>11,
     <1>12, <1>13, <1>14, <1>15, <1>16, <1>17, <1>18, <1>19, <1>20, <1>21,
     <1>22, <1>23, <1>24, <1>25, <1>26, <1>27, <1>28, <1>29
     DEF Next, Powered, MainSystem, Bootloader, Recovery, PowerLoss

(* The bootloader is told of an image only after its header.               *)
LEMMA FlashStep ==
  ASSUME BcbWorks, BootTypes, RawInv, BcbInv,
         bcb.command = "update" => raw.header, [Next]_vars
  PROVE  (bcb.command = "update" => raw.header)'
<1>1. CASE Crash \/ CrashInBcbWrite
  BY <1>1 DEF Crash, CrashInBcbWrite, BcbWorks, bootVars
<1>2. CASE \E r \in Requests : MainWritesCommand(r)
  BY <1>2 DEF MainWritesCommand
<1>3. CASE MainRebootsIntoRecovery \/ BootloaderBoots \/ UserBootsRecovery
           \/ GetArgsRead \/ Dispatch \/ ExtendedCommand \/ EraseFails \/ EraseDone
           \/ SideloadCheck \/ InstallUntrusted \/ AfterCommand \/ MenuChoice \/ HeadlessWait
           \/ WriteUpdateFails
  BY <1>3
     DEF MainRebootsIntoRecovery, BootloaderBoots, UserBootsRecovery,
         GetArgsRead, Dispatch, ExtendedCommand, EraseFails, EraseDone,
         SideloadCheck, InstallUntrusted, AfterCommand, MenuChoice, HeadlessWait,
         WriteUpdateFails, bootVars
<1>4. CASE BootloaderFlashes
  BY <1>4 DEF BootloaderFlashes, BootTypes, Messages
<1>5. CASE GetArgsWrite \/ SetSdcardUpdateBootloaderMessage
  <2>1. bcb' = Bcb("boot-recovery", args) \/ bcb' = Bcb("boot-recovery", {})
    BY <1>5
       DEF GetArgsWrite, SetSdcardUpdateBootloaderMessage, SetBcbUnchecked,
           BcbWorks
  <2>2. bcb'.command = "boot-recovery"
    BY <2>1, SMTT(60) DEF Bcb
  <2> QED
    BY <2>2
<1>6. CASE FinishBcb
  <2>1. bcb' = Bcb("", {})
    BY <1>6 DEF FinishBcb, SetBcbUnchecked, BcbWorks
  <2>2. bcb'.command = ""
    BY <2>1 DEF Bcb
  <2> QED
    BY <2>2
<1>7. CASE FirmwareStarts
  BY <1>7, SMTT(60) DEF FirmwareStarts, Bcb
<1>8. CASE EraseStarts \/ WriteZeroHeader
  <2>1. bcb.command # "update" /\ bcb' = bcb
    BY <1>8 DEF EraseStarts, WriteZeroHeader, BcbInv
  <2> QED
    BY <2>1
<1>9. CASE EraseSucceeds \/ InstallStarts \/ FinishIntent \/ FinishUnlink
  BY <1>9 DEF EraseSucceeds, InstallStarts, FinishIntent, FinishUnlink
<1>10. CASE InstallRejected \/ InstallFails \/ InstallSucceeds
  BY <1>10 DEF InstallRejected, InstallFails, InstallSucceeds, InstallReturns
<1>11. CASE WriteImage \/ WriteHeader
  BY <1>11 DEF WriteImage, WriteHeader, BootTypes
<1>12. CASE InstructBootloader
  BY <1>12 DEF InstructBootloader, RawInv, BcbWorks
<1>13. CASE CleanCacheUp
  <2>1. bcb.command # "update" /\ bcb' = bcb
    BY <1>13 DEF CleanCacheUp, BcbInv
  <2> QED
    BY <2>1
<1>14. CASE UNCHANGED vars
  BY <1>14 DEF vars, bootVars
<1> QED
  BY <1>1, <1>2, <1>3, <1>4, <1>5, <1>6, <1>7, <1>8, <1>9, <1>10, <1>11,
     <1>12, <1>13, <1>14
     DEF Next, Powered, MainSystem, Bootloader, Recovery, PowerLoss

(* Work is under way only where the code is at it, or where it will be     *)
(* taken up again.                                                         *)
LEMMA JobStep ==
  ASSUME BcbWorks, RunTypes, BootTypes, GhostTypes, TaskInv, BcbInv, Restartable, JobInv,
         [Next]_vars
  PROVE  JobInv'
<1>1. CASE Crash \/ CrashInBcbWrite
  BY <1>1, SMTT(60)
     DEF Crash, CrashInBcbWrite, PowerOff, ghostVars, JobInv, QuietPcs,
         ErasePcs, InstallPcs, FirmwarePcs
<1>2. CASE \E r \in Requests : MainWritesCommand(r)
  BY <1>2
     DEF MainWritesCommand, runVars, JobInv, QuietPcs, ErasePcs, InstallPcs,
         FirmwarePcs
<1>3. CASE MainRebootsIntoRecovery \/ UserBootsRecovery \/ BootloaderFlashes
  BY <1>3, SMTT(60)
     DEF MainRebootsIntoRecovery, UserBootsRecovery, BootloaderFlashes,
         ghostVars, JobInv, QuietPcs, ErasePcs, InstallPcs, FirmwarePcs
<1>4. CASE BootloaderBoots
  BY <1>4
     DEF BootloaderBoots, ghostVars, BootTypes, Messages, GhostTypes, Tasks,
         Restartable, Commanded, JobInv, QuietPcs, ErasePcs, InstallPcs,
         FirmwarePcs
<1>5. CASE GetArgsRead \/ GetArgsWrite
  BY <1>5, SMTT(60)
     DEF GetArgsRead, GetArgsWrite, ghostVars, JobInv, QuietPcs, ErasePcs,
         InstallPcs, FirmwarePcs
<1>6. CASE Dispatch
  <2>1. CASE pc' # "extendedcommand"
    BY <1>6, <2>1
       DEF Dispatch, JobInv, QuietPcs, ErasePcs, InstallPcs, FirmwarePcs
  <2>2. CASE pc' = "extendedcommand"
    <3>1. /\ args \cap Commanded = {} /\ bcb.recovery = args
          /\ job' = IF job \in MenuInstalls THEN "none" ELSE job
      BY <1>6, <2>2, SMTT(60) DEF Dispatch, UserInitiated, BcbInv, CommandPcs, Bcb
    <3>2. job \notin Commanded \cup {"firmware"}
      BY <3>1 DEF Restartable, Commanded
    <3>3. job \in {"none", "menu_wipe", "sideload"} \cup MenuInstalls
      BY <3>2 DEF GhostTypes, Tasks
    <3> QED
      BY <2>2, <3>1, <3>3
         DEF JobInv, QuietPcs, ErasePcs, InstallPcs, FirmwarePcs
  <2> QED
    BY <2>1, <2>2
<1>7. CASE ExtendedCommand
  BY <1>7
     DEF ExtendedCommand, ghostVars, JobInv, QuietPcs, ErasePcs, InstallPcs,
         FirmwarePcs
<1>8. CASE EraseStarts
  BY <1>8
     DEF EraseStarts, TaskInv, Commanded, JobInv, QuietPcs, ErasePcs,
         InstallPcs, FirmwarePcs
<1>9. CASE EraseSucceeds \/ EraseFails
  BY <1>9, SMTT(60)
     DEF EraseSucceeds, EraseFails, JobInv, QuietPcs, ErasePcs, InstallPcs,
         FirmwarePcs
<1>10. CASE EraseDone
  BY <1>10 DEF EraseDone, JobInv, QuietPcs, ErasePcs, InstallPcs, FirmwarePcs
<1>11. CASE SideloadCheck
  <2>1. CASE "sideload" \in args
    BY <1>11, <2>1
       DEF SideloadCheck, JobInv, QuietPcs, ErasePcs, InstallPcs, FirmwarePcs
  <2>2. CASE "sideload" \notin args
    <3>1. bcb.recovery = args /\ job \in {"none", "sideload"}
      BY <1>11, SMTT(60) DEF SideloadCheck, BcbInv, CommandPcs, Bcb, JobInv
    <3>2. job = "none"
      BY <2>2, <3>1 DEF Restartable
    <3> QED
      BY <1>11, <2>2, <3>2
         DEF SideloadCheck, JobInv, QuietPcs, ErasePcs, InstallPcs, FirmwarePcs
  <2> QED
    BY <2>1, <2>2
<1>23. CASE InstallUntrusted
  BY <1>23
     DEF InstallUntrusted, ghostVars, TaskInv, JobInv, QuietPcs, ErasePcs, InstallPcs,
         FirmwarePcs
<1>12. CASE InstallRejected \/ InstallFails
  BY <1>12
     DEF InstallRejected, InstallFails, InstallReturns, JobInv, QuietPcs,
         ErasePcs, InstallPcs, FirmwarePcs
<1>13. CASE InstallStarts
  BY <1>13
     DEF InstallStarts, TaskInv, JobInv, QuietPcs, ErasePcs, InstallPcs,
         FirmwarePcs
<1>14. CASE InstallSucceeds
  BY <1>14
     DEF InstallSucceeds, InstallReturns, JobInv, QuietPcs, ErasePcs,
         InstallPcs, FirmwarePcs
<1>15. CASE AfterCommand
  BY <1>15
     DEF AfterCommand, CallFinish, JobInv, QuietPcs, ErasePcs, InstallPcs,
         FirmwarePcs
<1>16. CASE MenuChoice
  BY <1>16
     DEF MenuChoice, CallFinish, ghostVars, JobInv, QuietPcs, ErasePcs,
         InstallPcs, FirmwarePcs
<1>17. CASE SetSdcardUpdateBootloaderMessage \/ HeadlessWait
  BY <1>17
     DEF SetSdcardUpdateBootloaderMessage, HeadlessWait, CallFinish, ghostVars,
         JobInv, QuietPcs, ErasePcs, InstallPcs, FirmwarePcs
<1>18. CASE FinishIntent \/ FinishBcb \/ FinishUnlink
  BY <1>18
     DEF FinishIntent, FinishBcb, FinishUnlink, CallFinish, PowerOff,
         ghostVars, JobInv, QuietPcs, ErasePcs, InstallPcs, FirmwarePcs
<1>19. CASE FirmwareStarts
  BY <1>19
     DEF FirmwareStarts, CallFinish, JobInv, QuietPcs, ErasePcs, InstallPcs,
         FirmwarePcs
<1>20. CASE WriteZeroHeader \/ WriteImage \/ WriteHeader \/ WriteUpdateFails
  BY <1>20
     DEF WriteZeroHeader, WriteImage, WriteHeader, WriteUpdateFails, ghostVars,
         JobInv, QuietPcs, ErasePcs, InstallPcs, FirmwarePcs
<1>21. CASE InstructBootloader \/ CleanCacheUp
  BY <1>21
     DEF InstructBootloader, PowerOff, CleanCacheUp, CallFinish, BcbWorks,
         ghostVars, JobInv, QuietPcs, ErasePcs, InstallPcs, FirmwarePcs
<1>22. CASE UNCHANGED vars
  BY <1>22
     DEF vars, runVars, ghostVars, JobInv, QuietPcs, ErasePcs, InstallPcs,
         FirmwarePcs
<1> QED
  BY <1>1, <1>2, <1>3, <1>4, <1>5, <1>6, <1>7, <1>8, <1>9, <1>10, <1>11,
     <1>12, <1>13, <1>14, <1>15, <1>16, <1>17, <1>18, <1>19, <1>20, <1>21,
     <1>22, <1>23
     DEF Next, Powered, MainSystem, Bootloader, Recovery, PowerLoss

(* The BCB restarts what is under way.                                     *)
LEMMA RestartStep ==
  ASSUME BcbWorks, BootTypes, TaskInv, BcbInv, JobInv, Restartable, [Next]_vars
  PROVE  Restartable'
<1>1. CASE Crash \/ CrashInBcbWrite
  BY <1>1
     DEF Crash, CrashInBcbWrite, bootVars, ghostVars, BcbWorks, Restartable
<1>2. CASE \E r \in Requests : MainWritesCommand(r)
  BY <1>2 DEF MainWritesCommand, Restartable
<1>3. CASE MainRebootsIntoRecovery \/ BootloaderBoots \/ UserBootsRecovery
           \/ GetArgsRead \/ ExtendedCommand \/ EraseFails
           \/ SideloadCheck \/ InstallUntrusted \/ AfterCommand \/ MenuChoice \/ HeadlessWait
           \/ WriteUpdateFails
  BY <1>3
     DEF MainRebootsIntoRecovery, BootloaderBoots, UserBootsRecovery,
         GetArgsRead, ExtendedCommand, EraseFails, SideloadCheck, InstallUntrusted, AfterCommand,
         MenuChoice, HeadlessWait, WriteUpdateFails, bootVars, ghostVars,
         Restartable
<1>4. CASE Dispatch \/ EraseDone
  BY <1>4 DEF Dispatch, EraseDone, bootVars, Commanded, Restartable
<1>5. CASE BootloaderFlashes
  BY <1>5 DEF BootloaderFlashes, BootTypes, Messages, Restartable
<1>6. CASE GetArgsWrite
  <2>1. bcb' = Bcb("boot-recovery", args) /\ job' = job /\ pc = "get_args_bcb"
    BY <1>6 DEF GetArgsWrite, SetBcbUnchecked, ghostVars, BcbWorks
  <2>2. bcb.recovery # {} => args = bcb.recovery
    BY <2>1 DEF BcbInv
  <2>3. bcb'.command = "boot-recovery" /\ bcb'.recovery = args
    BY <2>1 DEF Bcb
  <2> QED
    BY <2>1, <2>2, <2>3 DEF Restartable
<1>7. CASE SetSdcardUpdateBootloaderMessage \/ FinishBcb \/ FirmwareStarts
  <2>1. job' = "none"
    BY <1>7
       DEF SetSdcardUpdateBootloaderMessage, FinishBcb, FirmwareStarts,
           ghostVars, JobInv, QuietPcs
  <2> QED
    BY <2>1 DEF Restartable, Commanded
<1>8. CASE EraseStarts
  <2>1. CASE task \in Commanded
    <3>1. bcb' = Bcb("boot-recovery", args) /\ job' = task /\ task \in args
      BY <1>8, <2>1 DEF EraseStarts, BcbInv, TaskInv, ErasePcs
    <3> QED
      BY <2>1, <3>1 DEF Restartable, Commanded, Bcb
  <2>2. CASE task \notin Commanded
    BY <1>8, <2>2 DEF EraseStarts, Restartable
  <2> QED
    BY <2>1, <2>2
<1>9. CASE EraseSucceeds \/ FinishIntent \/ FinishUnlink \/ WriteImage \/ WriteHeader
  BY <1>9
     DEF EraseSucceeds, FinishIntent, FinishUnlink, WriteImage, WriteHeader,
         ghostVars, Restartable
<1>10. CASE InstallRejected \/ InstallFails \/ InstallSucceeds \/ CleanCacheUp
  <2>1. job' = "none"
    BY <1>10
       DEF InstallRejected, InstallFails, InstallSucceeds, InstallReturns,
           CleanCacheUp
  <2> QED
    BY <2>1 DEF Restartable, Commanded
<1>11. CASE InstallStarts
  <2>1. pc \in InstallPcs /\ job' = task /\ bcb' = bcb
    BY <1>11 DEF InstallStarts, InstallPcs
  <2>2. CASE task \in MenuInstalls
    BY <2>1, <2>2 DEF Restartable, Commanded, BcbInv
  <2>3. CASE task \notin MenuInstalls
    <3>1. task \in {"update_package", "sideload"} /\ task \in args
      BY <2>1, <2>3 DEF TaskInv, Commanded
    <3>2. bcb.command = "boot-recovery" /\ bcb.recovery = args
      BY <2>1, <2>3, SMTT(60) DEF BcbInv, Bcb
    <3> QED
      BY <2>1, <3>1, <3>2 DEF Restartable, Commanded
  <2> QED
    BY <2>2, <2>3
<1>12. CASE WriteZeroHeader
  <2>1. bcb' = Bcb("boot-recovery", FirmwareMessage) /\ job' = "firmware"
    BY <1>12 DEF WriteZeroHeader, BcbInv
  <2> QED
    BY <2>1, FirmwareRedo DEF Restartable, Commanded, Bcb
<1>13. CASE InstructBootloader
  <2>1. pc = "fw_update" /\ job' = "firmware" /\ bcb' = [bcb EXCEPT !.command = "update"]
    BY <1>13 DEF InstructBootloader, ghostVars, BcbWorks, JobInv, FirmwarePcs
  <2>2. bcb = Bcb("boot-recovery", FirmwareMessage)
    BY <2>1 DEF BcbInv, FirmwarePcs
  <2> QED
    BY <2>1, <2>2, FirmwareRedo DEF Restartable, Commanded, Bcb
<1>14. CASE UNCHANGED vars
  BY <1>14 DEF vars, bootVars, ghostVars, Restartable
<1> QED
  BY <1>1, <1>2, <1>3, <1>4, <1>5, <1>6, <1>7, <1>8, <1>9, <1>10, <1>11,
     <1>12, <1>13, <1>14
     DEF Next, Powered, MainSystem, Bootloader, Recovery, PowerLoss

(* The steps that write the BCB.                                           *)
LEMMA BcbWrites ==
  ASSUME Next, bcb' # bcb
  PROVE  \/ GetArgsWrite \/ SetSdcardUpdateBootloaderMessage \/ FinishBcb
         \/ FirmwareStarts \/ InstructBootloader \/ BootloaderFlashes
         \/ CrashInBcbWrite
<1>1. ~Crash /\ ~MainRebootsIntoRecovery /\ ~(\E r \in Requests : MainWritesCommand(r))
  BY DEF Crash, MainRebootsIntoRecovery, MainWritesCommand, bootVars
<1>2. ~BootloaderBoots /\ ~UserBootsRecovery
  BY DEF BootloaderBoots, UserBootsRecovery, bootVars
<1>3. ~GetArgsRead /\ ~Dispatch /\ ~ExtendedCommand
  BY DEF GetArgsRead, Dispatch, ExtendedCommand, bootVars
<1>4. ~EraseStarts /\ ~EraseSucceeds /\ ~EraseFails /\ ~EraseDone /\ ~SideloadCheck
      /\ ~InstallUntrusted
  BY DEF EraseStarts, EraseSucceeds, EraseFails, EraseDone, SideloadCheck, InstallUntrusted,
         bootVars
<1>5. ~InstallRejected /\ ~InstallStarts /\ ~InstallFails /\ ~InstallSucceeds
  BY DEF InstallRejected, InstallStarts, InstallFails, InstallSucceeds, InstallReturns
<1>6. ~AfterCommand /\ ~MenuChoice /\ ~HeadlessWait /\ ~FinishIntent /\ ~FinishUnlink
  BY DEF AfterCommand, MenuChoice, HeadlessWait, FinishIntent, FinishUnlink, bootVars
<1>7. ~WriteZeroHeader /\ ~WriteImage /\ ~WriteHeader /\ ~WriteUpdateFails /\ ~CleanCacheUp
  BY DEF WriteZeroHeader, WriteImage, WriteHeader, WriteUpdateFails, CleanCacheUp,
         bootVars
<1> QED
  BY <1>1, <1>2, <1>3, <1>4, <1>5, <1>6, <1>7
     DEF Next, Powered, MainSystem, Bootloader, Recovery, PowerLoss

(* Once the BCB is cleared only a pending command or the user runs         *)
(* recovery on.                                                            *)
LEMMA RetireStep ==
  ASSUME BcbWorks, RunTypes, BootTypes, RetireInv, [Next]_vars
  PROVE  RetireInv'
<1> USE DEF CommandPcs, ErasePcs, InstallPcs, FinishPcs, FirmwarePcs
<1>1. CASE Crash \/ CrashInBcbWrite
  BY <1>1 DEF Crash, CrashInBcbWrite, PowerOff, RetireInv
<1>2. CASE \E r \in Requests : MainWritesCommand(r)
  BY <1>2 DEF MainWritesCommand, runVars, RetireInv
<1>3. CASE MainRebootsIntoRecovery \/ UserBootsRecovery \/ BootloaderFlashes
  BY <1>3
     DEF MainRebootsIntoRecovery, UserBootsRecovery, BootloaderFlashes, ghostVars,
         bootVars, RetireInv
<1>4. CASE BootloaderBoots
  BY <1>4 DEF BootloaderBoots, ghostVars, bootVars, RetireInv, BootTypes, Messages
<1>5. CASE GetArgsRead \/ ExtendedCommand
  BY <1>5 DEF GetArgsRead, ExtendedCommand, ghostVars, bootVars, RetireInv
<1>6. CASE GetArgsWrite
  <2>1. bcb'.command = "boot-recovery" /\ pc' = "dispatch"
    BY <1>6, SMTT(60) DEF GetArgsWrite, SetBcbUnchecked, BcbWorks, Bcb
  <2> QED
    BY <2>1 DEF RetireInv
<1>7. CASE Dispatch
  BY <1>7 DEF Dispatch, Commanded, ghostVars, bootVars, RetireInv
<1>8. CASE EraseStarts \/ EraseSucceeds \/ EraseFails
  BY <1>8 DEF EraseStarts, EraseSucceeds, EraseFails, bootVars, RetireInv
<1>9. CASE EraseDone \/ SideloadCheck \/ InstallUntrusted
  BY <1>9
     DEF EraseDone, SideloadCheck, InstallUntrusted, bootVars, ghostVars, RetireInv
<1>10. CASE InstallRejected \/ InstallFails \/ InstallSucceeds
  BY <1>10
     DEF InstallRejected, InstallFails, InstallSucceeds, InstallReturns, RetireInv
<1>11. CASE InstallStarts
  BY <1>11 DEF InstallStarts, RetireInv
<1>12. CASE AfterCommand
  BY <1>12 DEF AfterCommand, CallFinish, bootVars, RetireInv
<1>13. CASE MenuChoice \/ HeadlessWait
  BY <1>13 DEF MenuChoice, HeadlessWait, CallFinish, bootVars, ghostVars, RetireInv
<1>14. CASE SetSdcardUpdateBootloaderMessage
  BY <1>14
     DEF SetSdcardUpdateBootloaderMessage, SetBcbUnchecked, BcbWorks, Bcb,
         ghostVars, RetireInv
<1>15. CASE FinishIntent \/ FinishBcb
  BY <1>15 DEF FinishIntent, FinishBcb, ghostVars, RetireInv
<1>16. CASE FinishUnlink
  BY <1>16 DEF FinishUnlink, CallFinish, PowerOff, ghostVars, RetireInv
<1>17. CASE FirmwareStarts
  <2>1. CASE ~fw \/ BcbFaults
    BY <1>17, <2>1 DEF FirmwareStarts, CallFinish, BcbWorks, RetireInv
  <2>2. CASE fw
    <3>1. bcb'.command = "boot-recovery" /\ pc' = "fw_header0"
      BY <1>17, <2>2, SMTT(60) DEF FirmwareStarts, BcbWorks, Bcb
    <3> QED
      BY <3>1 DEF RetireInv
  <2> QED
    BY <2>1, <2>2
<1>18. CASE WriteZeroHeader \/ WriteImage \/ WriteHeader \/ WriteUpdateFails
  BY <1>18
     DEF WriteZeroHeader, WriteImage, WriteHeader, WriteUpdateFails, bootVars,
         ghostVars, RetireInv
<1>19. CASE InstructBootloader
  BY <1>19 DEF InstructBootloader, PowerOff, BcbWorks, RetireInv
<1>20. CASE CleanCacheUp
  BY <1>20 DEF CleanCacheUp, CallFinish, RetireInv
<1>21. CASE UNCHANGED vars
  BY <1>21 DEF vars, bootVars, runVars, ghostVars, RetireInv
<1> QED
  BY <1>1, <1>2, <1>3, <1>4, <1>5, <1>6, <1>7, <1>8, <1>9, <1>10, <1>11, <1>12,
     <1>13, <1>14, <1>15, <1>16, <1>17, <1>18, <1>19, <1>20, <1>21
     DEF Next, Powered, MainSystem, Bootloader, Recovery, PowerLoss

(* The intent travels with the command and is delivered before the command *)
(* is retired.                                                             *)
LEMMA IntentStep ==
  ASSUME BcbWorks, RunTypes, BootTypes, GhostTypes, BcbInv, TaskInv, IntentInv,
         [Next]_vars
  PROVE  IntentInv'
<1> USE DEF CommandPcs, ErasePcs, InstallPcs, FinishPcs, FirmwarePcs, RecoveryPcs,
            Owed, Carries, Delivered, CacheMounts
<1>1. CASE Crash \/ CrashInBcbWrite
  BY <1>1
     DEF Crash, CrashInBcbWrite, PowerOff, BcbWorks, bootVars, ghostVars, IntentInv
<1>2. ASSUME NEW r \in Requests, MainWritesCommand(r)
      PROVE  IntentInv'
  <2>1. part'["cache"] # "half"
    BY <1>2 DEF MainWritesCommand, Parts
  <2> QED
    BY <1>2, <2>1 DEF MainWritesCommand, runVars, IntentInv
<1>3. CASE MainRebootsIntoRecovery \/ UserBootsRecovery
  BY <1>3
     DEF MainRebootsIntoRecovery, UserBootsRecovery, ghostVars, bootVars, IntentInv
<1>22. CASE BootloaderFlashes
  <2>1. bcb'.command = "boot-recovery" /\ bcb'.recovery = bcb.recovery
    BY <1>22 DEF BootloaderFlashes, BootTypes, Messages
  <2> QED
    BY <1>22, <2>1 DEF BootloaderFlashes, IntentInv
<1>4. CASE BootloaderBoots
  BY <1>4 DEF BootloaderBoots, ghostVars, bootVars, IntentInv, BootTypes, Messages
<1>5. CASE GetArgsRead
  BY <1>5 DEF GetArgsRead, BcbWorks, ghostVars, bootVars, IntentInv
<1>6. CASE GetArgsWrite
  <2>1. bcb' = Bcb("boot-recovery", args) /\ pc' = "dispatch"
    BY <1>6 DEF GetArgsWrite, SetBcbUnchecked, BcbWorks
  <2> QED
    BY <1>6, <2>1 DEF GetArgsWrite, Bcb, ghostVars, IntentInv
<1>7. CASE Dispatch
  BY <1>7 DEF Dispatch, Commanded, ghostVars, bootVars, IntentInv
<1>8. CASE ExtendedCommand \/ MenuChoice \/ SetSdcardUpdateBootloaderMessage \/ HeadlessWait
  <2>1. ~Owed' /\ pc' # "main"
    BY <1>8
       DEF ExtendedCommand, MenuChoice, SetSdcardUpdateBootloaderMessage,
           HeadlessWait, CallFinish, ghostVars, IntentInv
  <2>2. bcb' = bcb \/ bcb' = Bcb("boot-recovery", {})
    BY <1>8
       DEF ExtendedCommand, MenuChoice, SetSdcardUpdateBootloaderMessage,
           HeadlessWait, SetBcbUnchecked, bootVars
  <2>3. bcb'.command = "" => bcb'.recovery = {}
    <3>1. Bcb("boot-recovery", {}).command = "boot-recovery"
      BY DEF Bcb
    <3> QED
      BY <2>2, <3>1 DEF IntentInv
  <2> QED
    BY <2>1, <2>3 DEF IntentInv
<1>9. CASE EraseStarts \/ EraseSucceeds \/ EraseFails
  BY <1>9
     DEF EraseStarts, EraseSucceeds, EraseFails, DestroyPart, bootVars, IntentInv
<1>10. CASE EraseDone \/ SideloadCheck \/ InstallUntrusted
  BY <1>10
     DEF EraseDone, SideloadCheck, InstallUntrusted, bootVars, ghostVars, IntentInv,
         TaskInv, Commanded, RunTypes
<1>11. CASE InstallRejected \/ InstallFails \/ InstallSucceeds
  BY <1>11
     DEF InstallRejected, InstallFails, InstallSucceeds, InstallReturns, IntentInv,
         TaskInv, Commanded
<1>12. CASE InstallStarts
  BY <1>12 DEF InstallStarts, IntentInv
<1>13. CASE AfterCommand
  BY <1>13 DEF AfterCommand, CallFinish, bootVars, IntentInv
<1>14. CASE FinishIntent
  BY <1>14 DEF FinishIntent, ghostVars, IntentInv
<1>15. CASE FinishBcb
  <2>1. bcb' = Bcb("", {}) /\ pc' = "finish_unlink"
    BY <1>15 DEF FinishBcb, SetBcbUnchecked, BcbWorks
  <2> QED
    BY <1>15, <2>1 DEF FinishBcb, Bcb, ghostVars, IntentInv
<1>16. CASE FinishUnlink
  BY <1>16 DEF FinishUnlink, CallFinish, PowerOff, ghostVars, IntentInv
<1>17. CASE FirmwareStarts
  <2>1. CASE ~fw \/ BcbFaults
    BY <1>17, <2>1 DEF FirmwareStarts, CallFinish, BcbWorks, IntentInv
  <2>2. CASE fw
    <3>1. bcb' = Bcb("boot-recovery", FirmwareMessage) /\ pc' = "fw_header0"
      BY <1>17, <2>2 DEF FirmwareStarts, BcbWorks
    <3>2. "send_intent" \in args => "send_intent" \in FirmwareMessage
      BY DEF FirmwareMessage
    <3>3. "headless" \notin FirmwareMessage
      BY DEF FirmwareMessage
    <3>4. bcb'.command = "boot-recovery" /\ bcb'.recovery = FirmwareMessage
      BY <3>1 DEF Bcb
    <3> QED
      BY <1>17, <3>1, <3>2, <3>3, <3>4 DEF FirmwareStarts, IntentInv
  <2> QED
    BY <2>1, <2>2
<1>18. CASE WriteZeroHeader \/ WriteImage \/ WriteHeader \/ WriteUpdateFails
  BY <1>18
     DEF WriteZeroHeader, WriteImage, WriteHeader, WriteUpdateFails, DestroyPart,
         bootVars, ghostVars, BcbInv, Bcb, IntentInv
<1>19. CASE InstructBootloader
  BY <1>19
     DEF InstructBootloader, PowerOff, BcbWorks, ghostVars, BootTypes, Messages,
         IntentInv
<1>20. CASE CleanCacheUp
  BY <1>20 DEF CleanCacheUp, CallFinish, BcbInv, Bcb, IntentInv
<1>21. CASE UNCHANGED vars
  BY <1>21 DEF vars, bootVars, runVars, ghostVars, IntentInv
<1> QED
  BY <1>1, <1>2, <1>3, <1>4, <1>5, <1>6, <1>7, <1>8, <1>9, <1>10, <1>11, <1>12,
     <1>13, <1>14, <1>15, <1>16, <1>17, <1>18, <1>19, <1>20, <1>21, <1>22
     DEF Next, Powered, MainSystem, Bootloader, Recovery, PowerLoss

(* The first state, in which nothing has been asked for.                   *)
LEMMA InitInv ==
  ASSUME Init
  PROVE  /\ RunTypes /\ BootTypes /\ GhostTypes
         /\ HeaderLast /\ RawInv /\ TaskInv /\ BcbInv /\ HalfInv /\ JobInv
         /\ Restartable /\ RetireInv /\ IntentInv /\ bcb.command # "update"
<1>1. RunTypes
  <2>1. todo \in Seq(Parts \ {"system"})
    BY VolumeLists DEF Init
  <2>2. fw \in BOOLEAN
    BY DEF Init
  <2> QED
    BY <2>1, <2>2 DEF Init, RunTypes, Pcs, Tasks, Options
<1>2. BootTypes
  <2>1. bcb \in Messages /\ raw \in [header: BOOLEAN, whole: BOOLEAN]
    BY MessageType DEF Init, BlankBcb
  <2>2. part \in [Parts -> {"old", "half", "new"}]
    BY DEF Init
  <2>3. intentFile \in BOOLEAN /\ commandFile \in SUBSET Options
    BY DEF Init
  <2> QED
    BY <2>1, <2>2, <2>3 DEF BootTypes
<1>3. GhostTypes
  BY DEF Init, GhostTypes, Tasks
<1>4. pc = "main" /\ job = "none" /\ bcb.command = "" /\ raw.header = FALSE
  BY DEF Init, BlankBcb, Bcb, NoRaw
<1>5. \A p \in Parts : part[p] = "old"
  BY DEF Init
<1>6. HeaderLast /\ RawInv
  BY <1>4 DEF HeaderLast, RawInv
<1>7. TaskInv /\ BcbInv
  BY <1>4 DEF TaskInv, BcbInv, CommandPcs, ErasePcs, InstallPcs, FirmwarePcs
<1>8. HalfInv
  BY <1>5 DEF HalfInv
<1>9. JobInv /\ Restartable
  BY <1>4
     DEF JobInv, QuietPcs, ErasePcs, InstallPcs, FirmwarePcs, Restartable,
         Commanded
<1>10. bcb.command # "update"
  BY <1>4
<1>11. RetireInv
  BY <1>4
     DEF RetireInv, CommandPcs, ErasePcs, InstallPcs, FinishPcs, FirmwarePcs
<1>12. IntentInv
  <2>1. request = {} /\ bcb.recovery = {}
    BY DEF Init, BlankBcb, Bcb
  <2> QED
    BY <1>4, <2>1 DEF IntentInv, Owed
<1> QED
  BY <1>1, <1>2, <1>3, <1>6, <1>7, <1>8, <1>9, <1>10, <1>11, <1>12

(* The inductive invariant, for a BCB that works.                          *)
LEMMA InvStep ==
  ASSUME BcbWorks, IInv, [Next]_vars
  PROVE  IInv'
<1>1. RunTypes /\ BootTypes /\ GhostTypes
  BY DEF IInv, HeaderInv, TypeOK, TaskInv, RunTypes, BootTypes, GhostTypes
<1>2. /\ HeaderLast /\ RawInv /\ HalfInv /\ BcbInv /\ TaskInv /\ JobInv /\ Restartable
      /\ RetireInv /\ IntentInv
      /\ (bcb.command = "update" => raw.header)
  BY DEF IInv, HeaderInv, FlashImageWhole
<1>3. RunTypes' /\ BootTypes' /\ GhostTypes'
  BY <1>1, RunStep, BootStep, GhostStep
<1>4. TypeOK'
  BY <1>3 DEF TypeOK, RunTypes, BootTypes, GhostTypes
<1>5. HeaderLast' /\ RawInv' /\ TaskInv'
  BY <1>1, <1>2, HeaderStep, TaskStep
<1>6. HalfInv' /\ BcbInv'
  BY <1>1, <1>2, HalfStep, BcbStep
<1>7. JobInv' /\ Restartable'
  BY <1>1, <1>2, JobStep, RestartStep
<1>8. (bcb.command = "update" => raw.header)'
  BY <1>1, <1>2, FlashStep
<1>9. FlashImageWhole'
  BY <1>5, <1>8 DEF HeaderLast, FlashImageWhole
<1>10. RetireInv' /\ IntentInv'
  BY <1>1, <1>2, RetireStep, IntentStep
<1> QED
  BY <1>4, <1>5, <1>6, <1>7, <1>9, <1>10 DEF IInv, HeaderInv

(* As long as the BCB works, this invariant holds across any number of     *)
(* power losses: it says of each statement of recovery what the BCB, the   *)
(* partitions, the raw image and the intent are like there.                *)
THEOREM RestartInvariant ==
  ASSUME BcbWorks
  PROVE  Spec => []IInv
<1>1. Init => IInv
  BY InitInv
     DEF IInv, HeaderInv, TypeOK, RunTypes, BootTypes, GhostTypes, HeaderLast,
         FlashImageWhole
<1>2. IInv /\ [Next]_vars => IInv'
  BY InvStep
<1> QED
  BY <1>1, <1>2, PTL DEF Spec

(* Every variable of the protocol keeps to its values, also when BCB       *)
(* accesses fail or tear.                                                  *)
THEOREM TypeCorrect == Spec => []TypeOK
<1> DEFINE Types == RunTypes /\ BootTypes /\ GhostTypes
<1>1. Init => Types
  BY InitInv
<1>2. Types /\ [Next]_vars => Types'
  BY RunStep, BootStep, GhostStep
<1>3. Types => TypeOK
  BY DEF TypeOK, RunTypes, BootTypes, GhostTypes
<1> QED
  BY <1>1, <1>2, <1>3, PTL DEF Spec

(* write_update_for_bootloader writes the header last: whatever fails or   *)
(* loses power, and whoever reformats /cache, a valid header stands only   *)
(* before a complete image.  Nothing is assumed of the BCB.                *)
THEOREM HeaderIsLast == Spec => []HeaderLast
<1> DEFINE Inv == RunTypes /\ BootTypes /\ HeaderLast /\ RawInv
<1>1. Init => Inv
  BY InitInv
<1>2. Inv /\ [Next]_vars => Inv'
  BY RunStep, BootStep, HeaderStep
<1>3. Inv => HeaderLast
  OBVIOUS
<1> QED
  BY <1>1, <1>2, <1>3, PTL DEF Spec

(* "Safely restartable at any point", for every set of commands: as long   *)
(* as the BCB works, the main system never boots on a partition that an    *)
(* interrupted command of recovery left half written.                      *)
THEOREM MainSystemIsWhole ==
  ASSUME BcbWorks
  PROVE  Spec => []MainSystemWhole
<1>1. IInv => MainSystemWhole
  BY
     DEF IInv, HalfInv, Pending, ErasePcs, InstallPcs, FirmwarePcs,
         MainSystemWhole
<1> QED
  BY <1>1, RestartInvariant, PTL

(* Work that destroyed something is in the BCB until it ends.              *)
THEOREM WorkIsRestartable ==
  ASSUME BcbWorks
  PROVE  Spec => []Restartable
<1>1. IInv => Restartable
  BY DEF IInv
<1> QED
  BY <1>1, RestartInvariant, PTL

(* The bootloader never flashes an incomplete image.                       *)
THEOREM FlashedImageIsWhole ==
  ASSUME BcbWorks
  PROVE  Spec => []FlashImageWhole
<1>1. IInv => FlashImageWhole
  BY DEF IInv
<1> QED
  BY <1>1, RestartInvariant, PTL

(* The main system finds the intent it asked for when it runs again after  *)
(* its command ended: no power loss, firmware update or format of /cache   *)
(* on the way loses it (get_args, finish_recovery, firmware.c:91-95).      *)
THEOREM IntentIsDelivered ==
  ASSUME BcbWorks
  PROVE  Spec => []IntentDelivered
<1>1. IInv => IntentDelivered
  BY DEF IInv, IntentInv, Owed, Delivered, IntentDelivered
<1> QED
  BY <1>1, RestartInvariant, PTL

(* finish_recovery retires a command for good: nothing but the user sets   *)
(* the BCB again before the main system writes a new command.              *)
THEOREM RetirementIsFinal ==
  ASSUME BcbWorks
  PROVE  Spec => RetiredStaysRetired
<1>1. ASSUME IInv, Next, bcb.command = "", bcb'.command # "", outcome # "pending"
      PROVE  user
  <2> USE DEF RetireInv, CommandPcs, ErasePcs, InstallPcs, FirmwarePcs
  <2>1. RetireInv /\ BootTypes
    BY <1>1 DEF IInv, HeaderInv, TypeOK, BootTypes
  <2>2. bcb' # bcb
    BY <1>1
  <2>3. \/ GetArgsWrite \/ SetSdcardUpdateBootloaderMessage \/ FinishBcb
        \/ FirmwareStarts \/ InstructBootloader \/ BootloaderFlashes \/ CrashInBcbWrite
    BY <1>1, <2>2, BcbWrites
  <2>4. ~FinishBcb
    <3>1. Bcb("", {}).command = ""
      BY DEF Bcb
    <3> QED
      BY <1>1, <3>1 DEF FinishBcb, SetBcbUnchecked, BcbWorks
  <2>5. ~CrashInBcbWrite
    BY DEF CrashInBcbWrite, BcbWorks
  <2>6. pc \in {"get_args_bcb", "menu_bcb", "firmware", "fw_update", "flash"}
    BY <2>3, <2>4, <2>5
       DEF GetArgsWrite, SetSdcardUpdateBootloaderMessage, FirmwareStarts,
           InstructBootloader, BootloaderFlashes
  <2> QED
    BY <1>1, <2>1, <2>6
<1>2. IInv /\ [Next]_vars =>
        [bcb.command = "" /\ bcb'.command # "" /\ outcome # "pending" => user]_vars
  BY <1>1
<1> QED
  BY <1>2, RestartInvariant, PTL DEF Spec, RetiredStaysRetired

-----------------------------------------------------------------------------
(***************************************************************************)
(* The hash table, for all items and hash values.  The argument is about   *)
(* the slots: an item is in one slot, and none of the slots from its hash  *)
(* value up to there is empty.  Adding and removing keep this, a tombstone *)
(* not being empty, and resizeHash makes it anew, one slot after another.  *)
(* The load factor leaves an empty slot, where every search ends.          *)
(***************************************************************************)
(* A set of naturals has a least member: what takes the place of induction.*)
LEMMA Least ==
  ASSUME NEW S, S \subseteq Nat, S # {}
  PROVE  \E i \in S : \A j \in S : i <= j
<1> DEFINE R == {ss \in Nat \X Nat : ss[1] < ss[2]}
<1>1. IsWellFoundedOn(R, Nat)
  BY NatLessThanWellFounded DEF OpToRel
<1> HIDE DEF R
<1>2. PICK i \in S : \A j \in S : ~(<<j, i>> \in R)
  BY <1>1, WFMin
<1>3. \A j \in S : j < i => <<j, i>> \in R
  BY SMTT(60) DEF R
<1>4. \A j \in S : ~(j < i)
  BY <1>2, <1>3
<1>5. \A j \in S : i <= j
  BY <1>4, SMTT(60)
<1> QED
  BY <1>5

(* The slots a probe visits, going round a table of m slots from h.        *)
LEMMA Quotient ==
  ASSUME NEW m \in Nat \ {0}, NEW a \in Nat
  PROVE  \E q \in Nat, r \in 0 .. m - 1 : a = q * m + r
<1> DEFINE Q(n) == \E q \in Nat, r \in 0 .. m - 1 : n = q * m + r
           S == {n \in Nat : ~Q(n)}
<1>1. SUFFICES ASSUME S # {} PROVE FALSE
  OBVIOUS
<1>2. PICK i \in S : \A j \in S : i <= j
  BY <1>1, Least
<1>3. CASE i = 0
  <2>1. 0 \in Nat /\ 0 \in 0 .. m - 1 /\ 0 = 0 * m + 0
    BY SMTT(60)
  <2> QED
    BY <1>2, <1>3, <2>1
<1>4. CASE i # 0
  <2>1. i - 1 \in Nat /\ ~(i <= i - 1)
    BY <1>2, <1>4, SMTT(60)
  <2>2. Q(i - 1)
    BY <1>2, <2>1
  <2>3. PICK q \in Nat, r \in 0 .. m - 1 : i - 1 = q * m + r
    BY <2>2
  <2>4. CASE r < m - 1
    <3>1. r + 1 \in 0 .. m - 1 /\ i = q * m + (r + 1)
      BY <1>2, <2>3, <2>4, SMTT(60)
    <3> QED
      BY <1>2, <3>1
  <2>5. CASE ~(r < m - 1)
    <3>1. q + 1 \in Nat /\ 0 \in 0 .. m - 1 /\ i = (q + 1) * m + 0
      BY <1>2, <2>3, <2>5, SMTT(60)
    <3> QED
      BY <1>2, <3>1
  <2> QED
    BY <2>4, <2>5
<1> QED
  BY <1>3, <1>4

LEMMA Remainder ==
  ASSUME NEW m \in Nat \ {0}, NEW q \in Nat, NEW r \in 0 .. m - 1
  PROVE  (q * m + r) % m = r
  BY SMTT(60)

LEMMA GoesRound ==
  ASSUME NEW m \in Nat \ {0}, NEW h \in Nat
  PROVE  \E r \in 0 .. m - 1 : \A k \in 0 .. m - 1 :
           (h + k) % m = IF r + k < m THEN r + k ELSE r + k - m
<1>1. PICK q \in Nat, r \in 0 .. m - 1 : h = q * m + r
  BY Quotient
<1>2. ASSUME NEW k \in 0 .. m - 1
      PROVE  (h + k) % m = IF r + k < m THEN r + k ELSE r + k - m
  <2>1. CASE r + k < m
    <3>1. r + k \in 0 .. m - 1 /\ h + k = q * m + (r + k)
      BY <1>1, <2>1, SMTT(60)
    <3> QED
      BY <2>1, <3>1, Remainder
  <2>2. CASE ~(r + k < m)
    <3>1. q + 1 \in Nat /\ r + k - m \in 0 .. m - 1 /\ h + k = (q + 1) * m + (r + k - m)
      BY <1>1, <2>2, SMTT(60)
    <3>2. ((q + 1) * m + (r + k - m)) % m = r + k - m
      BY <3>1, Remainder
    <3> QED
      BY <2>2, <3>1, <3>2
  <2> QED
    BY <2>1, <2>2
<1> QED
  BY <1>2

LEMMA Visits ==
  ASSUME NEW m \in Nat \ {0}, NEW h \in Nat
  PROVE  /\ \A k \in 0 .. m - 1 : (h + k) % m \in 0 .. m - 1
         /\ \A i \in 0 .. m - 1 : \E k \in 0 .. m - 1 : (h + k) % m = i
<1>1. PICK r \in 0 .. m - 1 : \A k \in 0 .. m - 1 :
        (h + k) % m = IF r + k < m THEN r + k ELSE r + k - m
  BY GoesRound
<1>2. \A k \in 0 .. m - 1 : (h + k) % m \in 0 .. m - 1
  <2>1. \A k \in 0 .. m - 1 :
          (IF r + k < m THEN r + k ELSE r + k - m) \in 0 .. m - 1
    BY SMTT(60)
  <2> QED
    BY <1>1, <2>1
<1>3. ASSUME NEW i \in 0 .. m - 1
      PROVE  \E k \in 0 .. m - 1 : (h + k) % m = i
  <2>1. \E k \in 0 .. m - 1 : (IF r + k < m THEN r + k ELSE r + k - m) = i
    <3>1. CASE r <= i
      <4>1. i - r \in 0 .. m - 1 /\ r + (i - r) < m /\ r + (i - r) = i
        BY <3>1, SMTT(60)
      <4> QED
        BY <4>1
    <3>2. CASE ~(r <= i)
      <4>1. /\ i + m - r \in 0 .. m - 1 /\ ~(r + (i + m - r) < m)
            /\ r + (i + m - r) - m = i
        BY <3>2, SMTT(60)
      <4> QED
        BY <4>1
    <3> QED
      BY <3>1, <3>2
  <2> QED
    BY <1>1, <2>1
<1> QED
  BY <1>2, <1>3
-----------------------------------------------------------------------------
(* What a slot holds.                                                      *)
Entry(x) == <<HashOf[x], x>>
Cells == {Empty, Tombstone} \cup {Entry(x) : x \in HashItems}

(* A probe for x gets to slot i: it is the k-th slot from the hash value,  *)
(* and none of the slots before it is empty.                               *)
Reaches(s, m, x, i) ==
    \E k \in 0 .. m - 1 : /\ (HashOf[x] + k) % m = i
                          /\ \A j \in 0 .. k - 1 : s[(HashOf[x] + j) % m] # Empty

(* The slots s hold the items H: each of them in one slot, which the probe *)
(* for it reaches.                                                         *)
Holds(s, m, H) ==
    /\ H \subseteq HashItems
    /\ s \in [0 .. m - 1 -> Cells]
    /\ \A i \in 0 .. m - 1 : \A x \in HashItems : s[i] = Entry(x) => x \in H
    /\ \A x \in H : \E i \in 0 .. m - 1 :
         /\ s[i] = Entry(x) /\ Reaches(s, m, x, i)
         /\ \A j \in 0 .. m - 1 : s[j] = Entry(x) => j = i

Free(s, m) == \E i \in 0 .. m - 1 : s[i] = Empty

LEMMA Distinct ==
  /\ \A x : Entry(x) # Empty /\ Entry(x) # Tombstone
  /\ Empty # Tombstone
  /\ \A x, y : Entry(x) = Entry(y) => x = y
  /\ ~Live(Empty) /\ ~Live(Tombstone)
  /\ \A x : Live(Entry(x)) /\ Entry(x)[1] = HashOf[x] /\ Entry(x)[2] = x
<1>1. \A a, b : <<a, b>> # <<>> /\ Len(<<a, b>>) = 2 /\ <<a, b>>[1] = a /\ <<a, b>>[2] = b
  BY SMTT(60)
<1>2. \A a, b, c : <<a, b>> # <<c>>
  BY SMTT(60)
<1>3. \A a : <<a>> # <<>> /\ Len(<<a>>) = 1 /\ Len(<<>>) = 0
  BY SMTT(60)
<1>4. 0 # 2 /\ 1 # 2
  BY SMTT(60)
<1>5. \A x : Entry(x) # Empty /\ Entry(x) # Tombstone
  BY <1>1, <1>2 DEF Entry, Empty, Tombstone
<1>6. Empty # Tombstone
  BY <1>3 DEF Empty, Tombstone
<1>7. \A x : Live(Entry(x)) /\ Entry(x)[1] = HashOf[x] /\ Entry(x)[2] = x
  BY <1>1, SMTT(60) DEF Entry, Live
<1>8. ~Live(Empty) /\ ~Live(Tombstone)
  BY <1>3, <1>4 DEF Live, Empty, Tombstone
<1>9. \A x, y : Entry(x) = Entry(y) => x = y
  BY SMTT(60) DEF Entry
<1> QED
  BY <1>5, <1>6, <1>7, <1>8, <1>9

LEMMA OneCell ==
  ASSUME NEW c \in Cells
  PROVE  c = Empty \/ c = Tombstone \/ \E x \in HashItems : c = Entry(x)
  BY DEF Cells

LEMMA ACell ==
  /\ Empty \in Cells /\ Tombstone \in Cells
  /\ \A x \in HashItems : Entry(x) \in Cells
  BY DEF Cells

(* The members of a set of naturals include its minimum.                   *)
LEMMA MinIsLeast ==
  ASSUME NEW S, S \subseteq Nat, S # {}
  PROVE  Min(S) \in S /\ \A j \in S : Min(S) <= j
<1>1. \E i \in S : \A j \in S : i <= j
  BY Least
<1> QED
  BY <1>1 DEF Min

(* Where a probe for x stops: it matches an empty slot or x's own entry.   *)
LEMMA Stops ==
  ASSUME NEW m \in Nat \ {0}, NEW s \in [0 .. m - 1 -> Cells], NEW x \in HashItems
  PROVE  /\ HashOf[x] \in Nat
         /\ ProbeStops(s, m, HashOf[x], {x}) =
              {k \in 0 .. m - 1 : \/ s[(HashOf[x] + k) % m] = Empty
                                  \/ s[(HashOf[x] + k) % m] = Entry(x)}
         /\ ProbeStops(s, m, HashOf[x], {}) =
              {k \in 0 .. m - 1 : s[(HashOf[x] + k) % m] = Empty}
<1>0. HashOf[x] \in Nat
  BY HashAssumption, SMTT(60)
<1>1. \A k \in 0 .. m - 1 : (HashOf[x] + k) % m \in 0 .. m - 1
  BY <1>0, Visits
<1>2. ASSUME NEW c \in Cells
      PROVE  (Live(c) /\ c[1] = HashOf[x] /\ c[2] \in {x}) <=> c = Entry(x)
  <2>1. CASE c = Empty \/ c = Tombstone
    BY <2>1, Distinct
  <2>2. ASSUME NEW y \in HashItems, c = Entry(y)
        PROVE  (Live(c) /\ c[1] = HashOf[x] /\ c[2] \in {x}) <=> c = Entry(x)
    <3>1. Live(c) /\ c[1] = HashOf[y] /\ c[2] = y
      BY <2>2, Distinct
    <3>2. c = Entry(x) <=> y = x
      BY <2>2, Distinct
    <3> QED
      BY <3>1, <3>2
  <2> QED
    BY <2>1, <2>2, OneCell
<1>3. \A k \in 0 .. m - 1 : s[(HashOf[x] + k) % m] \in Cells
  BY <1>1
<1>4. \A k \in 0 .. m - 1 :
         LET c == s[(HashOf[x] + k) % m]
         IN  (Live(c) /\ c[1] = HashOf[x] /\ c[2] \in {x}) <=> c = Entry(x)
  BY <1>2, <1>3
<1>5. ProbeStops(s, m, HashOf[x], {x}) =
        {k \in 0 .. m - 1 : \/ s[(HashOf[x] + k) % m] = Empty
                            \/ s[(HashOf[x] + k) % m] = Entry(x)}
  BY <1>4 DEF ProbeStops
<1>6. ProbeStops(s, m, HashOf[x], {}) =
        {k \in 0 .. m - 1 : s[(HashOf[x] + k) % m] = Empty}
  BY DEF ProbeStops
<1> QED
  BY <1>0, <1>5, <1>6
-----------------------------------------------------------------------------
(* A probe that can stop at an empty slot, and meets no entry of x before, *)
(* ends at a slot that x may take.                                         *)
ProbeFree(s, m, x, i) == /\ i \in 0 .. m - 1 /\ s[i] = Empty
                         /\ Reaches(s, m, x, i)

LEMMA FirstFree ==
  ASSUME NEW m \in Nat \ {0}, NEW s \in [0 .. m - 1 -> Cells], NEW x \in HashItems,
         Free(s, m), NEW same \in {{}, {x}},
         \A i \in 0 .. m - 1 : s[i] # Entry(x)
  PROVE  ProbeFree(s, m, x, Probe(s, m, HashOf[x], same))
<1> DEFINE h == HashOf[x]
           E == {k \in 0 .. m - 1 : s[(h + k) % m] = Empty}
<1>1. /\ h \in Nat
      /\ \A k \in 0 .. m - 1 : (h + k) % m \in 0 .. m - 1
      /\ \A i \in 0 .. m - 1 : \E k \in 0 .. m - 1 : (h + k) % m = i
  BY Stops, Visits
<1>2. ProbeStops(s, m, h, same) = E
  <2>1. CASE same = {}
    BY <2>1, Stops
  <2>2. CASE same = {x}
    <3>1. \A k \in 0 .. m - 1 : s[(h + k) % m] # Entry(x)
      BY <1>1
    <3>2. {k \in 0 .. m - 1 : s[(h + k) % m] = Empty \/ s[(h + k) % m] = Entry(x)} = E
      BY <3>1
    <3> QED
      BY <2>2, <3>2, Stops
  <2> QED
    BY <2>1, <2>2
<1>3. E # {}
  BY <1>1 DEF Free
<1>4. E \subseteq Nat
  BY SMTT(60)
<1> HIDE DEF E
<1>5. PICK k \in E : k = Min(E) /\ \A j \in E : k <= j
  BY <1>3, <1>4, MinIsLeast
<1> USE DEF E
<1>6. \A j \in 0 .. k - 1 : j \in 0 .. m - 1 /\ ~(k <= j)
  BY <1>5, SMTT(60)
<1>7. \A j \in 0 .. k - 1 : s[(h + j) % m] # Empty
  BY <1>5, <1>6
<1>8. Probe(s, m, h, same) = (h + k) % m
  BY <1>2, <1>5 DEF Probe
<1> QED
  BY <1>1, <1>5, <1>7, <1>8 DEF ProbeFree, Reaches

(* A probe for an item the slots hold ends at its slot.                    *)
Found(s, m, x) == /\ Probe(s, m, HashOf[x], {x}) \in 0 .. m - 1
                  /\ s[Probe(s, m, HashOf[x], {x})] = Entry(x)

LEMMA ProbeFinds ==
  ASSUME NEW m \in Nat \ {0}, NEW s, NEW H, Holds(s, m, H), NEW x \in H
  PROVE  Found(s, m, x)
<1> DEFINE h == HashOf[x]
           E == {k \in 0 .. m - 1 : s[(h + k) % m] = Empty \/ s[(h + k) % m] = Entry(x)}
<1>0. s \in [0 .. m - 1 -> Cells] /\ x \in HashItems
  BY DEF Holds
<1>1. /\ h \in Nat
      /\ \A k \in 0 .. m - 1 : (h + k) % m \in 0 .. m - 1
  BY <1>0, Stops, Visits
<1>2. ProbeStops(s, m, h, {x}) = E
  BY <1>0, Stops
<1>3. PICK i \in 0 .. m - 1 : s[i] = Entry(x) /\ Reaches(s, m, x, i)
  BY DEF Holds
<1>4. PICK k \in 0 .. m - 1 : /\ (h + k) % m = i
                              /\ \A j \in 0 .. k - 1 : s[(h + j) % m] # Empty
  BY <1>3 DEF Reaches
<1>5. k \in E
  BY <1>3, <1>4
<1>6. E \subseteq Nat
  BY SMTT(60)
<1> HIDE DEF E
<1>7. PICK f \in E : f = Min(E) /\ \A j \in E : f <= j
  BY <1>5, <1>6, MinIsLeast
<1> USE DEF E
<1>8. f = k \/ f \in 0 .. k - 1
  BY <1>5, <1>7, SMTT(60)
<1>9. s[(h + f) % m] = Entry(x)
  BY <1>3, <1>4, <1>7, <1>8
<1>10. Probe(s, m, h, {x}) = (h + f) % m
  BY <1>2, <1>7 DEF Probe
<1> QED
  BY <1>1, <1>7, <1>9, <1>10 DEF Found

(* The item goes into the slot its probe ends at.                          *)
LEMMA PutHolds ==
  ASSUME NEW m \in Nat \ {0}, NEW s, NEW H, Holds(s, m, H),
         NEW x \in HashItems, x \notin H, NEW i, ProbeFree(s, m, x, i)
  PROVE  Holds([s EXCEPT ![i] = Entry(x)], m, H \cup {x})
<1> DEFINE t == [s EXCEPT ![i] = Entry(x)]
<1>0. s \in [0 .. m - 1 -> Cells] /\ i \in 0 .. m - 1 /\ s[i] = Empty
  BY DEF Holds, ProbeFree
<1>1. /\ t \in [0 .. m - 1 -> Cells] /\ t[i] = Entry(x)
      /\ \A j \in 0 .. m - 1 : j # i => t[j] = s[j]
  BY <1>0, ACell
<1> HIDE DEF t
<1>2. \A j \in 0 .. m - 1 : s[j] # Empty => t[j] # Empty
  BY <1>0, <1>1, Distinct
<1>3. ASSUME NEW y \in HashItems, NEW j, Reaches(s, m, y, j)
      PROVE  Reaches(t, m, y, j)
  <2>1. HashOf[y] \in Nat /\ \A k \in 0 .. m - 1 : (HashOf[y] + k) % m \in 0 .. m - 1
    BY <1>0, Stops, Visits
  <2>2. PICK k \in 0 .. m - 1 : /\ (HashOf[y] + k) % m = j
                                /\ \A l \in 0 .. k - 1 : s[(HashOf[y] + l) % m] # Empty
    BY <1>3 DEF Reaches
  <2>3. \A l \in 0 .. k - 1 : l \in 0 .. m - 1
    BY SMTT(60)
  <2>4. \A l \in 0 .. k - 1 : t[(HashOf[y] + l) % m] # Empty
    BY <1>2, <2>1, <2>2, <2>3
  <2> QED
    BY <2>2, <2>4 DEF Reaches
<1>4. ASSUME NEW j \in 0 .. m - 1, NEW y \in HashItems, t[j] = Entry(y)
      PROVE  /\ y \in H \cup {x}
             /\ y = x => j = i
  <2>1. CASE j = i
    BY <1>1, <1>4, <2>1, Distinct
  <2>2. CASE j # i
    BY <1>1, <1>4, <2>2 DEF Holds
  <2> QED
    BY <2>1, <2>2
<1>5. ASSUME NEW y \in H
      PROVE  \E j \in 0 .. m - 1 :
               /\ t[j] = Entry(y) /\ Reaches(t, m, y, j)
               /\ \A l \in 0 .. m - 1 : t[l] = Entry(y) => l = j
  <2>1. PICK j \in 0 .. m - 1 :
          /\ s[j] = Entry(y) /\ Reaches(s, m, y, j)
          /\ \A l \in 0 .. m - 1 : s[l] = Entry(y) => l = j
    BY DEF Holds
  <2>2. y \in HashItems /\ y # x
    BY DEF Holds
  <2>3. j # i
    BY <1>0, <2>1, Distinct
  <2>4. \A l \in 0 .. m - 1 : t[l] = Entry(y) => l = j
    BY <1>1, <2>1, <2>2, Distinct
  <2> QED
    BY <1>1, <1>3, <2>1, <2>2, <2>3, <2>4
<1>6. Reaches(t, m, x, i)
  BY <1>3 DEF ProbeFree
<1>7. H \cup {x} \subseteq HashItems
  BY DEF Holds
<1>8. \A y \in H \cup {x} : \E j \in 0 .. m - 1 :
         /\ t[j] = Entry(y) /\ Reaches(t, m, y, j)
         /\ \A l \in 0 .. m - 1 : t[l] = Entry(y) => l = j
  BY <1>0, <1>1, <1>4, <1>5, <1>6
<1>9. Holds(t, m, H \cup {x})
  BY <1>1, <1>4, <1>7, <1>8 DEF Holds
<1> QED
  BY <1>9 DEF t

(* An item that goes leaves a tombstone, which is not empty, so the probes *)
(* that went past it still do.                                             *)
LEMMA RemoveHolds ==
  ASSUME NEW m \in Nat \ {0}, NEW s, NEW H, Holds(s, m, H),
         NEW x \in H, NEW i \in 0 .. m - 1, s[i] = Entry(x)
  PROVE  Holds([s EXCEPT ![i] = Tombstone], m, H \ {x})
<1> DEFINE t == [s EXCEPT ![i] = Tombstone]
<1>0. s \in [0 .. m - 1 -> Cells] /\ x \in HashItems
  BY DEF Holds
<1>1. /\ t \in [0 .. m - 1 -> Cells] /\ t[i] = Tombstone
      /\ \A j \in 0 .. m - 1 : j # i => t[j] = s[j]
  BY <1>0, ACell
<1> HIDE DEF t
<1>2. \A j \in 0 .. m - 1 : s[j] # Empty => t[j] # Empty
  BY <1>0, <1>1, Distinct
<1>3. ASSUME NEW y \in HashItems, NEW j, Reaches(s, m, y, j)
      PROVE  Reaches(t, m, y, j)
  <2>1. HashOf[y] \in Nat /\ \A k \in 0 .. m - 1 : (HashOf[y] + k) % m \in 0 .. m - 1
    BY <1>0, Stops, Visits
  <2>2. PICK k \in 0 .. m - 1 : /\ (HashOf[y] + k) % m = j
                                /\ \A l \in 0 .. k - 1 : s[(HashOf[y] + l) % m] # Empty
    BY <1>3 DEF Reaches
  <2>3. \A l \in 0 .. k - 1 : l \in 0 .. m - 1
    BY SMTT(60)
  <2>4. \A l \in 0 .. k - 1 : t[(HashOf[y] + l) % m] # Empty
    BY <1>2, <2>1, <2>2, <2>3
  <2> QED
    BY <2>2, <2>4 DEF Reaches
<1>4. ASSUME NEW j \in 0 .. m - 1, NEW y \in HashItems, t[j] = Entry(y)
      PROVE  y \in H \ {x}
  <2>1. j # i
    BY <1>1, <1>4, Distinct
  <2>2. s[j] = Entry(y)
    BY <1>1, <1>4, <2>1
  <2>3. y \in H
    BY <2>2 DEF Holds
  <2>4. ASSUME y = x PROVE FALSE
    <3>1. PICK l \in 0 .. m - 1 : \A q \in 0 .. m - 1 : s[q] = Entry(x) => q = l
      BY DEF Holds
    <3> QED
      BY <2>1, <2>2, <2>4, <3>1
  <2> QED
    BY <2>3, <2>4
<1>5. ASSUME NEW y \in H \ {x}
      PROVE  \E j \in 0 .. m - 1 :
               /\ t[j] = Entry(y) /\ Reaches(t, m, y, j)
               /\ \A l \in 0 .. m - 1 : t[l] = Entry(y) => l = j
  <2>1. PICK j \in 0 .. m - 1 :
          /\ s[j] = Entry(y) /\ Reaches(s, m, y, j)
          /\ \A l \in 0 .. m - 1 : s[l] = Entry(y) => l = j
    BY DEF Holds
  <2>2. y \in HashItems /\ y # x
    BY DEF Holds
  <2>3. j # i
    BY <2>1, <2>2, Distinct
  <2>4. \A l \in 0 .. m - 1 : t[l] = Entry(y) => l = j
    BY <1>1, <2>1, Distinct
  <2> QED
    BY <1>1, <1>3, <2>1, <2>2, <2>3, <2>4
<1>6. H \ {x} \subseteq HashItems
  BY DEF Holds
<1>7. Holds(t, m, H \ {x})
  BY <1>1, <1>4, <1>5, <1>6 DEF Holds
<1> QED
  BY <1>7 DEF t

LEMMA NewHolds ==
  ASSUME NEW m \in Nat \ {0}
  PROVE  /\ Holds(NewSlots(m), m, {})
         /\ \A i \in 0 .. m - 1 : NewSlots(m)[i] = Empty
<1>1. NewSlots(m) \in [0 .. m - 1 -> Cells]
  BY ACell DEF NewSlots
<1>2. \A i \in 0 .. m - 1 : NewSlots(m)[i] = Empty
  BY DEF NewSlots
<1> QED
  BY <1>1, <1>2, Distinct DEF Holds
-----------------------------------------------------------------------------
(* Counting: while items and tombstones do not fill the slots, one is      *)
(* empty.                                                                  *)
Tombs(s, m) == {i \in 0 .. m - 1 : s[i] = Tombstone}

LEMMA TombsFinite ==
  ASSUME NEW m \in Nat \ {0}, NEW s
  PROVE  /\ IsFiniteSet(Tombs(s, m)) /\ Cardinality(Tombs(s, m)) \in Nat
         /\ IsFiniteSet(0 .. m - 1) /\ Cardinality(0 .. m - 1) = m
<1>1. 0 \in Int /\ m - 1 \in Int /\ ~(0 > m - 1) /\ m - 1 - 0 + 1 = m
  BY SMTT(60)
<1>2. IsFiniteSet(0 .. m - 1) /\ Cardinality(0 .. m - 1) = m
  BY <1>1, FS_Interval
<1>3. Tombs(s, m) \in SUBSET (0 .. m - 1)
  BY DEF Tombs
<1>4. IsFiniteSet(Tombs(s, m))
  BY <1>2, <1>3, FS_Subset
<1> QED
  BY <1>2, <1>4, FS_CardinalityType

LEMMA Room ==
  ASSUME NEW m \in Nat \ {0}, NEW s, NEW H, Holds(s, m, H), IsFiniteSet(H),
         Cardinality(H) + Cardinality(Tombs(s, m)) < m
  PROVE  Free(s, m)
<1> DEFINE D == Tombs(s, m)
           S == (0 .. m - 1) \ D
           f == [i \in S |-> CHOOSE x \in H : s[i] = Entry(x)]
<1> SUFFICES ASSUME ~Free(s, m) PROVE FALSE
  OBVIOUS
<1>1. /\ IsFiniteSet(D) /\ Cardinality(D) \in Nat
      /\ IsFiniteSet(0 .. m - 1) /\ Cardinality(0 .. m - 1) = m
  BY TombsFinite
<1>2. (0 .. m - 1) \cap D = D
  BY DEF Tombs
<1>3. IsFiniteSet(S) /\ Cardinality(S) = m - Cardinality(D)
  BY <1>1, <1>2, FS_Difference
<1>4. Cardinality(H) \in Nat
  BY FS_CardinalityType
<1>5. Cardinality(H) < Cardinality(S)
  BY <1>1, <1>3, <1>4, SMTT(60)
<1>6. ASSUME NEW i \in S
      PROVE  \E x \in H : s[i] = Entry(x)
  <2>1. i \in 0 .. m - 1 /\ s[i] # Tombstone
    BY DEF Tombs
  <2>2. s[i] \in Cells /\ s[i] # Empty
    BY <2>1 DEF Holds, Free
  <2>3. PICK x \in HashItems : s[i] = Entry(x)
    BY <2>1, <2>2, OneCell
  <2> QED
    BY <2>1, <2>3 DEF Holds
<1>7. f \in [S -> H] /\ \A i \in S : s[i] = Entry(f[i])
  BY <1>6
<1> HIDE DEF f, S
<1>8. PICK i \in S, j \in S : i # j /\ f[i] = f[j]
  <2>1. IsFiniteSet(S) /\ f \in [S -> H]
    BY <1>3, <1>7
  <2>2. \E x, y \in S : x # y /\ f[x] = f[y]
    BY <1>5, <2>1, FS_PigeonHole, SMTT(60)
  <2> QED
    BY <2>2
<1>9. s[i] = Entry(f[i]) /\ s[j] = Entry(f[i]) /\ f[i] \in H
  BY <1>7, <1>8
<1> USE DEF S
<1>10. PICK l \in 0 .. m - 1 : \A q \in 0 .. m - 1 : s[q] = Entry(f[i]) => q = l
  BY <1>9 DEF Holds
<1> QED
  BY <1>8, <1>9, <1>10

-----------------------------------------------------------------------------
(* resizeHash: one more slot of the old table moved.                       *)
MoveStep(s, N, g, i) ==
    IF i = 0 THEN NewSlots(N)
    ELSE IF ~Live(s[i - 1]) THEN g[i - 1]
    ELSE [g[i - 1] EXCEPT ![Probe(g[i - 1], N, s[i - 1][1], {})] = s[i - 1]]

Moves(g, m, s, N) == g = [i \in 0 .. m |-> MoveStep(s, N, g, i)]

(* The steps up to the n-th define one table after another.                *)
LEMMA MovesExist ==
  ASSUME NEW m \in Nat, NEW s, NEW N
  PROVE  \E g : Moves(g, m, s, N)
<1> DEFINE Q(n) == \E g : g = [i \in 0 .. n |-> MoveStep(s, N, g, i)]
           S == {n \in Nat : ~Q(n)}
<1>1. SUFFICES ASSUME S # {} PROVE FALSE
  BY DEF Moves
<1>2. PICK n \in S : \A j \in S : n <= j
  BY <1>1, Least
<1>3. n \in Nat /\ ~Q(n)
  BY <1>2
<1>4. CASE n = 0
  <2> DEFINE g == [i \in 0 .. 0 |-> NewSlots(N)]
  <2>1. \A i \in 0 .. 0 : i = 0
    BY SMTT(60)
  <2>2. \A i \in 0 .. 0 : MoveStep(s, N, g, i) = NewSlots(N)
    BY <2>1 DEF MoveStep
  <2>3. g = [i \in 0 .. 0 |-> MoveStep(s, N, g, i)]
    BY <2>2
  <2> QED
    BY <1>3, <1>4, <2>3
<1>5. CASE n # 0
  <2>1. n - 1 \in Nat /\ ~(n <= n - 1)
    BY <1>3, <1>5, SMTT(60)
  <2>2. Q(n - 1)
    BY <1>2, <2>1
  <2>3. PICK f : f = [i \in 0 .. n - 1 |-> MoveStep(s, N, f, i)]
    BY <2>2
  <2> DEFINE g == [i \in 0 .. n |-> IF i < n THEN f[i] ELSE MoveStep(s, N, f, n)]
  <2>4. /\ \A i \in 0 .. n : i < n => i \in 0 .. n - 1
        /\ \A i \in 0 .. n : ~(i < n) => i = n
        /\ \A i \in 0 .. n : i = 0 \/ (i - 1 \in 0 .. n /\ i - 1 < n)
    BY <1>3, <1>5, SMTT(60)
  <2>5. ASSUME NEW i \in 0 .. n
        PROVE  g[i] = MoveStep(s, N, g, i)
    <3>1. i = 0 \/ f[i - 1] = g[i - 1]
      <4>1. ASSUME i # 0 PROVE f[i - 1] = g[i - 1]
        <5>1. i - 1 \in 0 .. n /\ i - 1 < n
          BY <2>4, <4>1
        <5> QED
          BY <5>1
      <4> QED
        BY <4>1
    <3> HIDE DEF g
    <3>2. MoveStep(s, N, f, i) = MoveStep(s, N, g, i)
      <4>1. CASE i = 0
        BY <4>1 DEF MoveStep
      <4>2. CASE i # 0
        <5>1. f[i - 1] = g[i - 1]
          BY <3>1, <4>2
        <5> QED
          BY <4>2, <5>1 DEF MoveStep
      <4> QED
        BY <4>1, <4>2
    <3>3. g[i] = MoveStep(s, N, f, i)
      <4>1. CASE i < n
        <5>1. g[i] = f[i]
          BY <4>1 DEF g
        <5>2. f[i] = MoveStep(s, N, f, i)
          BY <2>3, <2>4, <4>1
        <5> QED
          BY <5>1, <5>2
      <4>2. CASE ~(i < n)
        BY <2>4, <4>2 DEF g
      <4> QED
        BY <4>1, <4>2
    <3> QED
      BY <3>2, <3>3
  <2>6. g = [i \in 0 .. n |-> MoveStep(s, N, g, i)]
    <3>1. g = [i \in 0 .. n |-> g[i]]
      OBVIOUS
    <3> HIDE DEF g
    <3> QED
      BY <2>5, <3>1
  <2> HIDE DEF g
  <2> QED
    BY <1>3, <2>6
<1> QED
  BY <1>4, <1>5
(* The items of the first n slots, and what the new table is once they     *)
(* have moved: it holds them, and has no tombstone.                        *)
Among(s, n) == {x \in HashItems : \E j \in 0 .. n - 1 : s[j] = Entry(x)}
Moved(t, N, s, n) == /\ Holds(t, N, Among(s, n))
                     /\ \A i \in 0 .. N - 1 : t[i] # Tombstone

LEMMA MoveOne ==
  ASSUME NEW m \in Nat \ {0}, NEW s, NEW H, Holds(s, m, H), IsFiniteSet(H),
         NEW N \in Nat \ {0}, Cardinality(H) < N, NEW g,
         NEW n \in 1 .. m, Moved(g[n - 1], N, s, n - 1)
  PROVE  Moved(MoveStep(s, N, g, n), N, s, n)
<1> DEFINE t == g[n - 1]
<1>1. /\ n - 1 \in 0 .. m - 1 /\ n # 0 /\ n - 1 \in 0 .. n - 1
      /\ \A j \in 0 .. n - 1 - 1 : j \in 0 .. m - 1 /\ j \in 0 .. n - 1 /\ j # n - 1
      /\ \A j \in 0 .. n - 1 : j = n - 1 \/ j \in 0 .. n - 1 - 1
  BY SMTT(60)
<1> DEFINE k == n - 1
<1> HIDE DEF k
<1>2. s[k] \in Cells /\ k \in 0 .. m - 1
  BY <1>1 DEF Holds, k
<1>3. \A x \in HashItems : x \in Among(s, n) <=> x \in Among(s, n - 1) \/ s[k] = Entry(x)
  BY <1>1 DEF Among, k
<1>4. CASE ~Live(s[k])
  <2>1. MoveStep(s, N, g, n) = t
    BY <1>1, <1>4 DEF MoveStep, k
  <2>2. \A x \in HashItems : s[k] # Entry(x)
    BY <1>4, Distinct
  <2>3. Among(s, n) = Among(s, n - 1)
    BY <1>3, <2>2 DEF Among
  <2> QED
    BY <2>1, <2>3 DEF Moved
<1>5. CASE Live(s[k])
  <2>1. PICK x \in HashItems : s[k] = Entry(x)
    BY <1>2, <1>5, OneCell, Distinct
  <2>2. s[k][1] = HashOf[x] /\ x \in H
    BY <1>2, <2>1, Distinct DEF Holds
  <2>3. x \notin Among(s, n - 1)
    <3>1. PICK l \in 0 .. m - 1 : \A q \in 0 .. m - 1 : s[q] = Entry(x) => q = l
      BY <2>2 DEF Holds
    <3>2. \A j \in 0 .. n - 1 - 1 : s[j] # Entry(x)
      BY <1>1, <1>2, <2>1, <3>1 DEF k
    <3> QED
      BY <3>2 DEF Among
  <2>4. Among(s, n) = Among(s, n - 1) \cup {x}
    <3>1. \A y \in HashItems : s[k] = Entry(y) <=> y = x
      BY <2>1, Distinct
    <3>2. Among(s, n) \subseteq HashItems /\ Among(s, n - 1) \subseteq HashItems
      BY DEF Among
    <3> QED
      BY <1>3, <3>1, <3>2
  <2>5. Among(s, n - 1) \in SUBSET H
    <3>1. \A j \in 0 .. m - 1 : \A y \in HashItems : s[j] = Entry(y) => y \in H
      BY DEF Holds
    <3> QED
      BY <1>1, <3>1 DEF Among
  <2>6. /\ IsFiniteSet(Among(s, n - 1)) /\ Cardinality(Among(s, n - 1)) <= Cardinality(H)
        /\ Cardinality(Among(s, n - 1)) \in Nat /\ Cardinality(H) \in Nat
    BY <2>5, FS_Subset, FS_CardinalityType
  <2>7. Tombs(t, N) = {}
    BY DEF Tombs, Moved
  <2>8. Cardinality(Among(s, n - 1)) + Cardinality(Tombs(t, N)) < N
    <3>1. Cardinality(Tombs(t, N)) = 0
      BY <2>7, FS_EmptySet
    <3> QED
      BY <2>6, <3>1, SMTT(60)
  <2>9. Holds(t, N, Among(s, n - 1))
    BY DEF Moved
  <2> HIDE DEF t
  <2>10. Free(t, N)
    BY <2>6, <2>8, <2>9, Room
  <2>11. t \in [0 .. N - 1 -> Cells] /\ \A i \in 0 .. N - 1 : t[i] # Entry(x)
    BY <2>3, <2>9 DEF Holds
  <2> DEFINE p == Probe(t, N, HashOf[x], {})
  <2>12. ProbeFree(t, N, x, p)
    <3>1. {} \in {{}, {x}}
      OBVIOUS
    <3> QED
      BY <2>10, <2>11, <3>1, FirstFree
  <2> HIDE DEF p
  <2> DEFINE u == [t EXCEPT ![p] = Entry(x)]
  <2>13. Holds(u, N, Among(s, n))
    <3>1. Holds(u, N, Among(s, n - 1) \cup {x})
      BY <2>3, <2>9, <2>12, PutHolds
    <3> QED
      BY <2>4, <3>1
  <2>14. MoveStep(s, N, g, n) = u
    BY <1>1, <1>5, <2>1, <2>2 DEF MoveStep, k, t, p
  <2>15. \A i \in 0 .. N - 1 : u[i] # Tombstone
    <3>1. \A i \in 0 .. N - 1 : t[i] # Tombstone
      BY DEF t, Moved
    <3>2. \A i \in 0 .. N - 1 : u[i] = Entry(x) \/ u[i] = t[i]
      BY <2>11
    <3> HIDE DEF u
    <3> QED
      BY <3>1, <3>2, Distinct
  <2> QED
    BY <2>13, <2>14, <2>15 DEF Moved
<1> QED
  BY <1>4, <1>5

LEMMA MoveAll ==
  ASSUME NEW m \in Nat \ {0}, NEW s, NEW H, Holds(s, m, H), IsFiniteSet(H),
         NEW N \in Nat \ {0}, Cardinality(H) < N,
         NEW g, Moves(g, m, s, N)
  PROVE  /\ Holds(g[m], N, H)
         /\ \A i \in 0 .. N - 1 : g[m][i] # Tombstone
<1> DEFINE Q(n) == n <= m => Moved(g[n], N, s, n)
           S == {n \in Nat : ~Q(n)}
<1>1. ASSUME NEW n \in 0 .. m PROVE g[n] = MoveStep(s, N, g, n)
  BY DEF Moves
<1>2. S = {}
  <2>1. SUFFICES ASSUME S # {} PROVE FALSE
    OBVIOUS
  <2>2. PICK n \in S : \A j \in S : n <= j
    BY <2>1, Least
  <2>3. n \in Nat /\ n <= m /\ ~Moved(g[n], N, s, n)
    BY <2>2
  <2>4. CASE n = 0
    <3>1. g[0] = NewSlots(N)
      <4>1. 0 \in 0 .. m
        BY SMTT(60)
      <4> QED
        BY <1>1, <4>1 DEF MoveStep
    <3>2. Among(s, 0) = {}
      <4>1. 0 .. 0 - 1 = {}
        BY SMTT(60)
      <4> QED
        BY <4>1 DEF Among
    <3>3. Moved(g[0], N, s, 0)
      BY <3>1, <3>2, NewHolds, Distinct DEF Moved
    <3> QED
      BY <2>3, <2>4, <3>3
  <2>5. CASE n # 0
    <3>1. n - 1 \in Nat /\ ~(n <= n - 1) /\ n - 1 <= m /\ n \in 1 .. m /\ n \in 0 .. m
      BY <2>3, <2>5, SMTT(60)
    <3>2. Moved(g[n - 1], N, s, n - 1)
      BY <2>2, <3>1
    <3>3. Moved(MoveStep(s, N, g, n), N, s, n)
      BY <3>1, <3>2, MoveOne
    <3> QED
      BY <1>1, <2>3, <3>1, <3>3
  <2> QED
    BY <2>4, <2>5
<1>3. Moved(g[m], N, s, m)
  <2>1. m \in Nat /\ m <= m
    BY SMTT(60)
  <2> QED
    BY <1>2, <2>1
<1>4. Among(s, m) = H
  <2>1. H \subseteq HashItems
    BY DEF Holds
  <2>2. \A x \in HashItems : (\E j \in 0 .. m - 1 : s[j] = Entry(x)) <=> x \in H
    BY DEF Holds
  <2> QED
    BY <2>1, <2>2 DEF Among
<1> QED
  BY <1>3, <1>4 DEF Moved

Resized(T, N, t, H) == /\ T = [size |-> N, slot |-> t, n |-> T.n, dead |-> 0]
                       /\ Holds(t, N, H)
                       /\ \A i \in 0 .. N - 1 : t[i] # Tombstone

(* resizeHash keeps the items and drops the tombstones.                    *)
LEMMA ResizeHolds ==
  ASSUME NEW T, T.size \in Nat \ {0}, NEW H, Holds(T.slot, T.size, H), IsFiniteSet(H),
         NEW N \in Nat \ {0}, Cardinality(H) < N
  PROVE  /\ \E t : Resized(ResizeHash(T, N), N, t, H)
         /\ ResizeHash(T, N).n = T.n
<1> DEFINE m == T.size
           s == T.slot
           g == CHOOSE f : f = [i \in 0 .. m |-> MoveStep(s, N, f, i)]
<1>1. \E f : Moves(f, m, s, N)
  BY MovesExist
<1>2. Moves(g, m, s, N)
  BY <1>1 DEF Moves
<1>3. ResizeHash(T, N) = [size |-> N, slot |-> g[m], n |-> T.n, dead |-> 0]
  BY DEF ResizeHash, MoveStep
<1> HIDE DEF g, m, s
<1>m. m \in Nat \ {0} /\ Holds(s, m, H)
  BY DEF m, s
<1>4. Holds(g[m], N, H) /\ \A i \in 0 .. N - 1 : g[m][i] # Tombstone
  BY <1>m, <1>2, MoveAll
<1>5. ResizeHash(T, N).n = T.n
  BY <1>3, SMTT(60)
<1>6. Resized(ResizeHash(T, N), N, g[m], H)
  BY <1>3, <1>4, <1>5 DEF Resized
<1> QED
  BY <1>5, <1>6
-----------------------------------------------------------------------------
(* A table of m slots s that holds the items H, with its counts right and  *)
(* its load factor kept.                                                   *)
Loaded(n, d, m) == (n + d) * LoadDenom <= m * LoadNumer

TableOf(T, m, s, H) ==
    /\ T = [size |-> m, slot |-> s, n |-> Cardinality(H), dead |-> Cardinality(Tombs(s, m))]
    /\ m \in Nat \ {0} /\ m <= MaxTable
    /\ Holds(s, m, H) /\ IsFiniteSet(H)
    /\ Loaded(Cardinality(H), Cardinality(Tombs(s, m)), m)

TabInd == \E m, s : TableOf(tab, m, s, held)

LEMMA TableParts ==
  ASSUME NEW T, NEW m, NEW s, NEW H, TableOf(T, m, s, H)
  PROVE  /\ T.size = m /\ T.slot = s
         /\ T.n = Cardinality(H) /\ T.dead = Cardinality(Tombs(s, m))
         /\ m \in Nat \ {0} /\ m <= MaxTable
         /\ Holds(s, m, H) /\ s \in [0 .. m - 1 -> Cells] /\ H \subseteq HashItems
         /\ IsFiniteSet(H) /\ Cardinality(H) \in Nat
         /\ Cardinality(Tombs(s, m)) \in Nat
         /\ Loaded(Cardinality(H), Cardinality(Tombs(s, m)), m)
<1>1. T.size = m /\ T.slot = s /\ T.n = Cardinality(H) /\ T.dead = Cardinality(Tombs(s, m))
  BY DEF TableOf
<1>2. Cardinality(H) \in Nat
  BY FS_CardinalityType DEF TableOf
<1>3. Cardinality(Tombs(s, m)) \in Nat
  BY TombsFinite DEF TableOf
<1> QED
  BY <1>1, <1>2, <1>3 DEF TableOf, Holds

(* Five eighths of the slots is less than all of them.                     *)
LEMMA TableFree ==
  ASSUME NEW T, NEW m, NEW s, NEW H, TableOf(T, m, s, H)
  PROVE  Free(s, m)
<1>1. /\ m \in Nat \ {0} /\ Holds(s, m, H) /\ IsFiniteSet(H)
      /\ Cardinality(H) \in Nat /\ Cardinality(Tombs(s, m)) \in Nat
      /\ Loaded(Cardinality(H), Cardinality(Tombs(s, m)), m)
  BY TableParts
<1>2. \A a, b \in Nat : Loaded(a, b, m) => a + b < m
  BY <1>1, SMTT(60) DEF Loaded, LoadDenom, LoadNumer
<1> QED
  BY <1>1, <1>2, Room

(* Lookup finds the items held and no other.                               *)
LEMMA LookupFinds ==
  ASSUME NEW T, NEW m, NEW s, NEW H, TableOf(T, m, s, H), NEW x \in HashItems
  PROVE  /\ x \in H => HashTableLookup(T, HashOf[x], {x}) = Entry(x)
         /\ x \notin H => /\ HashTableLookup(T, HashOf[x], {x}) = Empty
                          /\ ProbeFree(s, m, x, Probe(s, m, HashOf[x], {x}))
<1>1. /\ T.size = m /\ T.slot = s
      /\ m \in Nat \ {0} /\ Holds(s, m, H) /\ s \in [0 .. m - 1 -> Cells]
  BY TableParts
<1>2. ASSUME x \in H PROVE HashTableLookup(T, HashOf[x], {x}) = Entry(x)
  <2>1. s[Probe(s, m, HashOf[x], {x})] = Entry(x)
    <3>1. Found(s, m, x)
      BY <1>1, <1>2, ProbeFinds
    <3> QED
      BY <3>1 DEF Found
  <2> QED
    BY <1>1, <2>1 DEF HashTableLookup
<1>3. ASSUME x \notin H
      PROVE  /\ HashTableLookup(T, HashOf[x], {x}) = Empty
             /\ ProbeFree(s, m, x, Probe(s, m, HashOf[x], {x}))
  <2>1. \A i \in 0 .. m - 1 : s[i] # Entry(x)
    BY <1>1, <1>3 DEF Holds
  <2>2. Free(s, m) /\ {x} \in {{}, {x}}
    BY TableFree
  <2>3. ProbeFree(s, m, x, Probe(s, m, HashOf[x], {x}))
    BY <1>1, <2>1, <2>2, FirstFree
  <2> QED
    BY <1>1, <2>3 DEF HashTableLookup, ProbeFree
<1> QED
  BY <1>2, <1>3

(* The fields an operation assigns, one after the other.                   *)
Fields(m, s, n, d) == [size |-> m, slot |-> s, n |-> n, dead |-> d]
Slotted(T, s, n) == [T EXCEPT !.slot = s, !.n = n]

LEMMA SlotAndCount ==
  ASSUME NEW m, NEW s, NEW n, NEW d, NEW t, NEW k
  PROVE  Slotted(Fields(m, s, n, d), t, k) = Fields(m, t, k, d)
<1> DEFINE T == [size |-> m, slot |-> s, n |-> n, dead |-> d]
           R == [size |-> m, slot |-> t, n |-> n, dead |-> d]
<1>1. [T EXCEPT !.slot = t] = R
  BY SMTT(60)
<1>2. [R EXCEPT !.n = k] = [size |-> m, slot |-> t, n |-> k, dead |-> d]
  BY SMTT(60)
<1>3. Slotted(T, t, k) = [R EXCEPT !.n = k]
  <2> HIDE DEF T, R
  <2> QED
    BY <1>1 DEF Slotted
<1> QED
  BY <1>2, <1>3 DEF Fields

(* mzHashTableLookup with doAdd.                                           *)
PutInto(P, m, s, H, x, t) ==
    /\ P = [size |-> m, slot |-> t, n |-> Cardinality(H) + 1,
            dead |-> Cardinality(Tombs(s, m))]
    /\ Holds(t, m, H \cup {x}) /\ Tombs(t, m) = Tombs(s, m)

LEMMA PutKeeps ==
  ASSUME NEW T, NEW m, NEW s, NEW H, TableOf(T, m, s, H),
         NEW x \in HashItems, x \notin H
  PROVE  \E t : PutInto(Put(T, HashOf[x], x), m, s, H, x, t)
<1> DEFINE p == Probe(s, m, HashOf[x], {x})
           t == [s EXCEPT ![p] = Entry(x)]
<1>1. /\ T = [size |-> m, slot |-> s, n |-> Cardinality(H), dead |-> Cardinality(Tombs(s, m))]
      /\ T.size = m /\ T.slot = s
      /\ m \in Nat \ {0} /\ Holds(s, m, H) /\ s \in [0 .. m - 1 -> Cells]
  BY TableParts DEF TableOf
<1>2. ProbeFree(s, m, x, p)
  BY LookupFinds
<1>3. Put(T, HashOf[x], x) = [T EXCEPT !.slot[p] = Entry(x), !.n = @ + 1]
  BY <1>1 DEF Put, Entry
<1> HIDE DEF p
<1>4. [T EXCEPT !.slot[p] = Entry(x), !.n = @ + 1] =
        [size |-> m, slot |-> t, n |-> Cardinality(H) + 1,
         dead |-> Cardinality(Tombs(s, m))]
  <2>1. T.n = Cardinality(H)
    BY TableParts
  <2>2. T = Fields(m, s, Cardinality(H), Cardinality(Tombs(s, m)))
    BY <1>1 DEF Fields
  <2>3. Slotted(T, t, Cardinality(H) + 1) =
          Fields(m, t, Cardinality(H) + 1, Cardinality(Tombs(s, m)))
    BY <2>2, SlotAndCount, SMTT(60)
  <2> QED
    BY <1>1, <2>1, <2>3 DEF Fields, Slotted
<1>5. Holds(t, m, H \cup {x})
  BY <1>1, <1>2, PutHolds
<1>6. Tombs(t, m) = Tombs(s, m)
  <2>1. p \in 0 .. m - 1 /\ s[p] = Empty
    BY <1>2 DEF ProbeFree
  <2>2. t[p] = Entry(x) /\ \A i \in 0 .. m - 1 : i # p => t[i] = s[i]
    BY <1>1, <2>1
  <2> HIDE DEF t
  <2>3. \A i \in 0 .. m - 1 : t[i] = Tombstone <=> s[i] = Tombstone
    BY <2>1, <2>2, Distinct
  <2> QED
    BY <2>3 DEF Tombs
<1> HIDE DEF t
<1> QED
  BY <1>3, <1>4, <1>5, <1>6 DEF PutInto

LEMMA AddKeeps ==
  ASSUME NEW T, NEW m, NEW s, NEW H, TableOf(T, m, s, H),
         NEW x \in HashItems, x \notin H,
         2 * m <= MaxTable \/ Loaded(Cardinality(H) + 1, Cardinality(Tombs(s, m)), m)
  PROVE  \E N, t : TableOf(HashTableAdd(T, HashOf[x], x), N, t, H \cup {x})
<1> DEFINE n == Cardinality(H)
           d == Cardinality(Tombs(s, m))
           G == H \cup {x}
<1>1. /\ m \in Nat \ {0} /\ m <= MaxTable /\ IsFiniteSet(H)
      /\ n \in Nat /\ d \in Nat /\ Loaded(n, d, m)
  BY TableParts
<1>2. IsFiniteSet(G) /\ Cardinality(G) = n + 1
  BY <1>1, FS_AddElement
<1> DEFINE P == Put(T, HashOf[x], x)
<1>a. PICK t : PutInto(P, m, s, H, x, t)
  BY PutKeeps
<1> HIDE DEF P
<1>3. /\ P = [size |-> m, slot |-> t, n |-> n + 1, dead |-> d]
      /\ Holds(t, m, G) /\ Tombs(t, m) = Tombs(s, m)
  BY <1>a DEF PutInto
<1>4. P.size = m /\ P.slot = t /\ P.n = n + 1 /\ P.dead = d
  BY <1>3, SMTT(60)
<1> HIDE DEF n, d
<1>5. HashTableAdd(T, HashOf[x], x) =
        IF (n + 1 + d) * LoadDenom > m * LoadNumer THEN ResizeHash(P, m * 2) ELSE P
  BY <1>4 DEF HashTableAdd, P
<1>6. CASE Loaded(n + 1, d, m)
  <2>1. ~((n + 1 + d) * LoadDenom > m * LoadNumer)
    BY <1>1, <1>6, SMTT(60) DEF Loaded, LoadDenom, LoadNumer
  <2>2. TableOf(P, m, t, G)
    BY <1>1, <1>2, <1>3, <1>6 DEF TableOf, P, d
  <2> QED
    BY <1>5, <2>1, <2>2
<1>7. CASE ~Loaded(n + 1, d, m)
  <2>1. (n + 1 + d) * LoadDenom > m * LoadNumer
    BY <1>1, <1>7, SMTT(60) DEF Loaded, LoadDenom, LoadNumer
  <2>2. m * 2 \in Nat \ {0} /\ n + 1 < m * 2 /\ Loaded(n + 1, 0, m * 2)
    BY <1>1, SMTT(60) DEF Loaded, LoadDenom, LoadNumer
  <2>3. m * 2 <= MaxTable
    <3>1. 2 * m = m * 2
      BY <1>1, SMTT(60)
    <3> QED
      BY <1>7, <3>1 DEF n, d
  <2>b. PICK u : Resized(ResizeHash(P, m * 2), m * 2, u, G) /\ ResizeHash(P, m * 2).n = P.n
    <3>1. Cardinality(G) < m * 2 /\ IsFiniteSet(G) /\ Holds(P.slot, P.size, G)
      BY <1>2, <1>3, <1>4, <2>2
    <3>2. P.size \in Nat \ {0} /\ m * 2 \in Nat \ {0}
      BY <1>1, <1>4, <2>2
    <3> HIDE DEF G
    <3> QED
      BY <3>1, <3>2, ResizeHolds
  <2>4. /\ ResizeHash(P, m * 2) = [size |-> m * 2, slot |-> u, n |-> P.n, dead |-> 0]
        /\ Holds(u, m * 2, G)
        /\ \A i \in 0 .. m * 2 - 1 : u[i] # Tombstone
    BY <2>b DEF Resized
  <2>5. Cardinality(Tombs(u, m * 2)) = 0
    <3>1. Tombs(u, m * 2) = {}
      BY <2>4 DEF Tombs
    <3> QED
      BY <3>1, FS_EmptySet
  <2>6. TableOf(ResizeHash(P, m * 2), m * 2, u, G)
    BY <1>2, <1>4, <2>2, <2>3, <2>4, <2>5 DEF TableOf
  <2> QED
    BY <1>5, <2>1, <2>6
<1> QED
  BY <1>6, <1>7
(* mzHashTableRemove of an item that is there.                             *)
LEMMA RemoveKeeps ==
  ASSUME NEW T, NEW m, NEW s, NEW H, TableOf(T, m, s, H), NEW x \in H
  PROVE  \E t : TableOf(HashTableRemove(T, HashOf[x], x), m, t, H \ {x})
<1> DEFINE p == Probe(s, m, HashOf[x], {x})
           t == [s EXCEPT ![p] = Tombstone]
           n == Cardinality(H)
           d == Cardinality(Tombs(s, m))
<1>1. /\ T = [size |-> m, slot |-> s, n |-> n, dead |-> d]
      /\ T.size = m /\ T.slot = s /\ T.n = n /\ T.dead = d
      /\ m \in Nat \ {0} /\ m <= MaxTable /\ Holds(s, m, H) /\ s \in [0 .. m - 1 -> Cells]
      /\ IsFiniteSet(H) /\ n \in Nat /\ d \in Nat /\ Loaded(n, d, m)
  BY TableParts DEF TableOf
<1>2. p \in 0 .. m - 1 /\ s[p] = Entry(x)
  <2>1. Found(s, m, x)
    BY <1>1, ProbeFinds
  <2> QED
    BY <2>1 DEF Found
<1>3. HashTableRemove(T, HashOf[x], x) =
        [T EXCEPT !.slot = t, !.n = n - 1, !.dead = d + 1]
  BY <1>1 DEF HashTableRemove
<1> HIDE DEF p
<1>4. Holds(t, m, H \ {x})
  BY <1>1, <1>2, RemoveHolds
<1>5. Tombs(t, m) = Tombs(s, m) \cup {p} /\ p \notin Tombs(s, m)
  <2>1. t[p] = Tombstone /\ \A i \in 0 .. m - 1 : i # p => t[i] = s[i]
    BY <1>1, <1>2
  <2> HIDE DEF t
  <2>2. s[p] # Tombstone
    BY <1>2, Distinct
  <2> QED
    BY <1>2, <2>1, <2>2 DEF Tombs
<1>6. Cardinality(Tombs(t, m)) = d + 1
  <2>1. IsFiniteSet(Tombs(s, m))
    BY <1>1, TombsFinite
  <2>2. Cardinality(Tombs(s, m) \cup {p}) = d + 1
    BY <1>5, <2>1, FS_AddElement
  <2> QED
    BY <1>5, <2>2
<1>7. IsFiniteSet(H \ {x}) /\ Cardinality(H \ {x}) = n - 1
  BY <1>1, FS_RemoveElement
<1> HIDE DEF t, n, d
<1>8. Loaded(n - 1, d + 1, m)
  BY <1>1, SMTT(60) DEF Loaded, LoadDenom, LoadNumer
<1>9. [T EXCEPT !.slot = t, !.n = n - 1, !.dead = d + 1] =
        [size |-> m, slot |-> t, n |-> n - 1, dead |-> d + 1]
  <2>1. T = Fields(m, s, n, d)
    BY <1>1 DEF Fields
  <2>2. Slotted(T, t, n - 1) = Fields(m, t, n - 1, d)
    BY <2>1, SlotAndCount, SMTT(60)
  <2>3. [Fields(m, t, n - 1, d) EXCEPT !.dead = d + 1] = Fields(m, t, n - 1, d + 1)
    BY SMTT(60) DEF Fields
  <2>4. [Slotted(T, t, n - 1) EXCEPT !.dead = d + 1] = Fields(m, t, n - 1, d + 1)
    BY <2>2, <2>3
  <2> QED
    BY <2>4 DEF Fields, Slotted
<1>10. TableOf(HashTableRemove(T, HashOf[x], x), m, t, H \ {x})
  BY <1>1, <1>3, <1>4, <1>6, <1>7, <1>8, <1>9 DEF TableOf
<1> QED
  BY <1>10

(* A table with nothing in it.                                             *)
LEMMA EmptyTable ==
  ASSUME NEW m \in Nat \ {0}, m <= MaxTable
  PROVE  TableOf([size |-> m, slot |-> NewSlots(m), n |-> 0, dead |-> 0],
                 m, NewSlots(m), {})
<1>1. Holds(NewSlots(m), m, {}) /\ \A i \in 0 .. m - 1 : NewSlots(m)[i] = Empty
  BY NewHolds
<1>2. Tombs(NewSlots(m), m) = {}
  BY <1>1, Distinct DEF Tombs
<1>3. Loaded(0, 0, m)
  BY SMTT(60) DEF Loaded, LoadDenom, LoadNumer
<1> QED
  BY <1>1, <1>2, <1>3, FS_EmptySet DEF TableOf

LEMMA FirstSize ==
  ASSUME NEW v \in 1 .. 3
  PROVE  RoundUpPower2(v) \in {1, 2, 4}
<1> DEFINE Pow == {2 ^ k : k \in 0 .. 6}
           Up(p) == p >= v /\ (p = 1 \/ p \div 2 < v)
<1>1. 2 ^ 0 = 1 /\ 2 ^ 1 = 2 /\ 2 ^ 2 = 4 /\ 2 ^ 3 = 8 /\ 2 ^ 4 = 16 /\ 2 ^ 5 = 32 /\ 2 ^ 6 = 64
  BY SMTT(60)
<1>2. 0 .. 6 = {0, 1, 2, 3, 4, 5, 6}
  BY SMTT(60)
<1>3. Pow = {1, 2, 4, 8, 16, 32, 64}
  <2>1. \A k \in 0 .. 6 : 2 ^ k \in {1, 2, 4, 8, 16, 32, 64}
    BY <1>1, <1>2
  <2>2. {1, 2, 4, 8, 16, 32, 64} \subseteq Pow
    BY <1>1, <1>2
  <2> QED
    BY <2>1, <2>2
<1>4. Up(1) \/ Up(2) \/ Up(4)
  BY SMTT(60)
<1>5. ~Up(8) /\ ~Up(16) /\ ~Up(32) /\ ~Up(64)
  BY SMTT(60)
<1> HIDE DEF Up, Pow
<1>6. \E p \in Pow : Up(p)
  BY <1>3, <1>4
<1>7. (CHOOSE p \in Pow : Up(p)) \in {q \in Pow : Up(q)}
  BY <1>6
<1>8. {q \in Pow : Up(q)} \subseteq {1, 2, 4}
  BY <1>3, <1>5
<1>9. RoundUpPower2(v) = CHOOSE p \in Pow : Up(p)
  BY DEF RoundUpPower2, Pow, Up
<1> QED
  BY <1>7, <1>8, <1>9
-----------------------------------------------------------------------------

LEMMA TabInitial ==
  TabInit => TabInd
<1> SUFFICES ASSUME TabInit PROVE TabInd
  OBVIOUS
<1>1. PICK v \in 1 .. 3 : tab = HashTableCreate(v)
  BY DEF TabInit
<1>2. PICK m \in {1, 2, 4} : m = RoundUpPower2(v)
  BY FirstSize
<1>3. m \in Nat \ {0} /\ m <= MaxTable
  BY <1>2, HashAssumption, SMTT(60)
<1>4. tab = [size |-> m, slot |-> NewSlots(m), n |-> 0, dead |-> 0]
  BY <1>1, <1>2 DEF HashTableCreate
<1>5. TableOf(tab, m, NewSlots(m), held)
  BY <1>3, <1>4, EmptyTable DEF TabInit
<1> QED
  BY <1>5 DEF TabInd

LEMMA TabInductive ==
  TabInd /\ [TabNext]_tabVars => TabInd'
<1> SUFFICES ASSUME TabInd, [TabNext]_tabVars PROVE TabInd'
  OBVIOUS
<1>1. PICK m, s : TableOf(tab, m, s, held)
  BY DEF TabInd
<1>2. /\ tab.size = m /\ tab.n = Cardinality(held) /\ tab.dead = Cardinality(Tombs(s, m))
      /\ m \in Nat \ {0} /\ m <= MaxTable
      /\ tab = [size |-> m, slot |-> s, n |-> tab.n, dead |-> tab.dead]
      /\ tab.n \in Nat /\ tab.dead \in Nat
  BY <1>1, TableParts DEF TableOf
<1>3. ASSUME NEW N, NEW t, TableOf(tab', N, t, held') PROVE TabInd'
  BY <1>3 DEF TabInd
<1>4. ASSUME NEW x \in HashItems, AddItem(x) PROVE TabInd'
  <2>1. x \notin held
    <3>1. HashTableLookup(tab, HashOf[x], {x}) = Empty
      BY <1>4 DEF AddItem, Lookup
    <3>2. x \in held => HashTableLookup(tab, HashOf[x], {x}) = Entry(x)
      BY <1>1, LookupFinds
    <3> QED
      BY <3>1, <3>2, Distinct
  <2>2. 2 * m <= MaxTable \/ Loaded(Cardinality(held) + 1, Cardinality(Tombs(s, m)), m)
    <3>1. 2 * m <= MaxTable \/ (tab.n + tab.dead + 1) * LoadDenom <= m * LoadNumer
      BY <1>2, <1>4 DEF AddItem
    <3>2. tab.n + tab.dead + 1 = tab.n + 1 + tab.dead
      BY <1>2, SMTT(60)
    <3> QED
      BY <1>2, <3>1, <3>2 DEF Loaded
  <2>3. PICK N, t : TableOf(HashTableAdd(tab, HashOf[x], x), N, t, held \cup {x})
    BY <1>1, <2>1, <2>2, AddKeeps
  <2> QED
    BY <1>3, <1>4, <2>3 DEF AddItem
<1>5. ASSUME NEW x \in HashItems, RemoveItem(x) PROVE TabInd'
  <2>1. x \in held
    BY <1>1, <1>5, LookupFinds DEF RemoveItem, Lookup
  <2>2. PICK t : TableOf(HashTableRemove(tab, HashOf[x], x), m, t, held \ {x})
    BY <1>1, <2>1, RemoveKeeps
  <2> QED
    BY <1>3, <1>5, <2>2 DEF RemoveItem
<1>6. CASE ClearTable
  <2> DEFINE E == [size |-> m, slot |-> NewSlots(m), n |-> 0, dead |-> 0]
  <2>1. [tab EXCEPT !.slot = NewSlots(m), !.n = 0, !.dead = 0] = E
    <3>1. tab = Fields(m, s, tab.n, tab.dead)
      BY <1>2 DEF Fields
    <3>2. Slotted(tab, NewSlots(m), 0) = Fields(m, NewSlots(m), 0, tab.dead)
      BY <3>1, SlotAndCount, SMTT(60)
    <3>3. [Fields(m, NewSlots(m), 0, tab.dead) EXCEPT !.dead = 0] = E
      BY SMTT(60) DEF Fields
    <3>4. [Slotted(tab, NewSlots(m), 0) EXCEPT !.dead = 0] = E
      BY <3>2, <3>3
    <3> QED
      BY <3>4 DEF Slotted
  <2>2. tab' = E /\ held' = {}
    BY <1>2, <1>6, <2>1 DEF ClearTable
  <2>3. TableOf(E, m, NewSlots(m), {})
    BY <1>2, EmptyTable
  <2> QED
    BY <1>3, <2>2, <2>3
<1>7. CASE UNCHANGED tabVars
  BY <1>1, <1>3, <1>7 DEF tabVars
<1> QED
  BY <1>4, <1>5, <1>6, <1>7 DEF TabNext

LEMMA TabSafe ==
  TabInd => TabInv
<1> SUFFICES ASSUME TabInd PROVE TabInv
  OBVIOUS
<1>1. PICK m, s : TableOf(tab, m, s, held)
  BY DEF TabInd
<1>2. /\ tab.size = m /\ tab.slot = s
      /\ tab.n = Cardinality(held) /\ tab.dead = Cardinality(Tombs(s, m))
      /\ m <= MaxTable /\ s \in [0 .. m - 1 -> Cells] /\ Holds(s, m, held)
      /\ Loaded(Cardinality(held), Cardinality(Tombs(s, m)), m)
      /\ held \subseteq HashItems
  BY <1>1, TableParts
<1>3. TabTypeOK
  <2>1. DOMAIN tab.slot = 0 .. tab.size - 1
    BY <1>2
  <2> QED
    BY <1>2, <2>1 DEF TabTypeOK, Tombs, Loaded
<1>4. SearchHalts
  <2>1. Free(s, m)
    BY <1>1, TableFree
  <2> QED
    BY <1>2, <2>1 DEF SearchHalts, Free
<1>5. \A x \in HashItems : (Lookup(x) # Empty) = (x \in held)
  <2> SUFFICES ASSUME NEW x \in HashItems
               PROVE  (Lookup(x) # Empty) = (x \in held)
    OBVIOUS
  <2>1. /\ x \in held => HashTableLookup(tab, HashOf[x], {x}) = Entry(x)
        /\ x \notin held => HashTableLookup(tab, HashOf[x], {x}) = Empty
    BY <1>1, LookupFinds
  <2>2. Lookup(x) # Empty <=> x \in held
    BY <2>1, Distinct DEF Lookup
  <2> QED
    BY <2>2, SMTT(60)
<1>6. ASSUME NEW x \in held
      PROVE  Cardinality({i \in 0 .. tab.size - 1 : tab.slot[i] = <<HashOf[x], x>>}) = 1
  <2>1. PICK i \in 0 .. m - 1 : /\ s[i] = Entry(x)
                                /\ \A j \in 0 .. m - 1 : s[j] = Entry(x) => j = i
    BY <1>2 DEF Holds
  <2>2. {j \in 0 .. m - 1 : s[j] = Entry(x)} = {i}
    BY <2>1
  <2> QED
    BY <1>2, <2>2, FS_Singleton DEF Entry
<1> QED
  BY <1>3, <1>4, <1>5, <1>6 DEF TabInv, HoldsItems

(***************************************************************************)
(* For any items, hash values and table sizes, mzHashTableLookup and       *)
(* mzHashTableRemove (Hash.c) keep the table right: every search meets an  *)
(* empty slot and halts, lookup finds exactly the items added and not      *)
(* removed since, each in one slot, and the counts and the load factor     *)
(* agree with the slots, through collisions, tombstones and resizes.       *)
(***************************************************************************)
THEOREM HashTableHolds ==
  TabInit /\ [][TabNext]_tabVars => []TabInv
<1>1. TabInit => TabInd
  BY TabInitial
<1>2. TabInd /\ [TabNext]_tabVars => TabInd'
  BY TabInductive
<1>3. TabInd => TabInv
  BY TabSafe
<1> QED
  BY <1>1, <1>2, <1>3, PTL

=============================================================================
