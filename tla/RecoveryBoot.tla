---------------------------- MODULE RecoveryBoot ----------------------------
(***************************************************************************)
(* The restart protocol of the recovery tool: how a command travels from   *)
(* the main system through /cache/recovery/command and the bootloader      *)
(* control block (BCB) to the partitions it changes, and how a power loss  *)
(* at any point is survived.  Sources: recovery.c (main, get_args,         *)
(* finish_recovery, erase_volume, prompt_and_wait, reboot_main_system),    *)
(* firmware.c, bootloader.c (write_update_for_bootloader), install.c       *)
(* (what install_package does to the system) and install_zip of            *)
(* extendedcommands.c.                                                     *)
(*                                                                         *)
(* The main system and the bootloader are not in the repository; they are  *)
(* modelled from what recovery.c:80-136 and firmware.c:47-77 rely on.      *)
(*                                                                         *)
(* One step is one durable write (a BCB write, an unlink, the start or the *)
(* end of a format), so that a crash can fall between any two of them.     *)
(***************************************************************************)
EXTENDS Naturals, Sequences

CONSTANTS
  Requests,     \* the option sets the main system may write as a command
  HasDatadata,  \* has_datadata(): the device has a /datadata volume
  Mtd,          \* device_flash_type() == MTD: raw flash, BCB in an MTD page
  BcbFaults,    \* reads and writes of the BCB may return an error
  BcbTears      \* a power loss in a BCB write leaves the page erased

Options == {"update_package", "wipe_data", "wipe_cache", "send_intent",
            "sideload", "headless"}

Parts == {"system", "data", "datadata", "cache"}

ASSUME RequestsAssumption == Requests \subseteq SUBSET Options
ASSUME FlagsAssumption ==
  /\ HasDatadata \in BOOLEAN
  /\ Mtd \in BOOLEAN
  /\ BcbFaults \in BOOLEAN
  /\ BcbTears \in BOOLEAN

VARIABLES
  (* what survives a power loss *)
  bcb,          \* struct bootloader_message: the command and recovery fields
  commandFile,  \* options in /cache/recovery/command ({}: no such file)
  intentFile,   \* /cache/recovery/intent has been written
  part,         \* "old", "half" written, or "new", per partition
  raw,          \* the raw update image on the cache partition
  (* the running program *)
  pc,           \* who runs, and in recovery, at which statement
  ret,          \* where finish_recovery() returns to
  task,         \* whose erase or install is under way
  todo,         \* volumes still to be erased by this task
  args,         \* argv after get_args()
  status,       \* main()'s status
  fw,           \* update_data != NULL in firmware.c
  (* history, read by the properties only *)
  request,      \* the last command the main system wrote
  outcome,      \* what became of that command
  job,          \* work begun (something destroyed) and not yet ended
  excused,      \* half-written partitions the user was told of or caused
  user          \* the user has taken part since that command was written

bootVars  == <<bcb, commandFile, intentFile, part, raw>>
runVars   == <<pc, ret, task, todo, args, status, fw>>
ghostVars == <<request, outcome, job, excused, user>>
vars      == <<bootVars, runVars, ghostVars>>

Bcb(command, recovery) == [command |-> command, recovery |-> recovery]
BlankBcb == Bcb("", {})
NoRaw    == [header |-> FALSE, whole |-> FALSE]

(* ensure_path_mounted("/cache") succeeds on a formatted partition only.   *)
CacheMounts == part["cache"] # "half"

Commanded     == {"update_package", "wipe_data", "wipe_cache"}
UserInitiated == args \cap Commanded = {}

RecoveryPcs == {"get_args", "get_args_bcb", "dispatch", "extendedcommand",
                "erase", "erasing", "install", "confirm", "installing", "sideload",
                "after", "menu", "menu_bcb", "headless_wait",
                "firmware", "fw_header0", "fw_image", "fw_header",
                "fw_update", "fw_cleanup",
                "finish", "finish_bcb", "finish_unlink"}
Pcs   == {"off", "main", "flash"} \cup RecoveryPcs
MenuInstalls == {"menu_install", "menu_sideload"}
Tasks == {"none", "menu_wipe", "sideload"} \cup MenuInstalls \cup Commanded

Messages == [command: {"", "boot-recovery", "update"}, recovery: SUBSET Options]

TypeOK ==
  /\ bcb \in Messages
  /\ commandFile \in SUBSET Options
  /\ intentFile \in BOOLEAN
  /\ part \in [Parts -> {"old", "half", "new"}]
  /\ raw \in [header: BOOLEAN, whole: BOOLEAN]
  /\ pc \in Pcs
  /\ ret \in {"prompt", "headless", "final", "reboot"}
  /\ task \in Tasks
  /\ todo \in Seq(Parts \ {"system"})
  /\ args \in SUBSET Options
  /\ status \in {"success", "error"}
  /\ fw \in BOOLEAN
  /\ request \in SUBSET Options
  /\ outcome \in {"none", "pending", "success", "error"}
  /\ job \in Tasks \cup {"firmware"}
  /\ excused \in SUBSET Parts
  /\ user \in BOOLEAN

Init ==
  /\ bcb = BlankBcb
  /\ commandFile = {}
  /\ intentFile = FALSE
  /\ part = [p \in Parts |-> "old"]
  /\ raw = NoRaw
  /\ pc = "main"
  /\ ret = "final"
  /\ task = "none"
  /\ todo = <<>>
  /\ args = {}
  /\ status = "success"
  /\ fw = FALSE
  /\ request = {}
  /\ outcome = "none"
  /\ job = "none"
  /\ excused = {}
  /\ user = FALSE

-----------------------------------------------------------------------------
(* Power, the main system and the bootloader.                              *)

(* Whatever only the recovery process knows is gone.                       *)
PowerOff ==
  /\ pc' = "off"
  /\ ret' = "final"
  /\ task' = "none"
  /\ todo' = <<>>
  /\ args' = {}
  /\ status' = "success"
  /\ fw' = FALSE

(* A power loss between two durable writes, in any program.                *)
Crash ==
  /\ pc # "off"
  /\ PowerOff
  /\ UNCHANGED <<bootVars, ghostVars>>

BcbWriters == {"get_args_bcb", "menu_bcb", "finish_bcb", "fw_update"}
              \cup (IF fw THEN {"firmware"} ELSE {})

(* set_bootloader_message_mtd erases the page before it writes it: a power *)
(* loss in between leaves 0xff bytes, which read as no message.            *)
CrashInBcbWrite ==
  /\ BcbTears
  /\ pc \in BcbWriters
  /\ bcb' = BlankBcb
  /\ PowerOff
  /\ UNCHANGED <<commandFile, intentFile, part, raw, ghostVars>>

(* The main system uses what it was given, and asks for something new.     *)
MainWritesCommand(r) ==
  /\ pc = "main"
  /\ CacheMounts
  /\ commandFile' = r
  /\ intentFile' = FALSE
  /\ part' = [p \in Parts |-> IF part[p] = "new" THEN "old" ELSE part[p]]
  /\ request' = r
  /\ outcome' = "pending"
  /\ user' = FALSE
  /\ UNCHANGED <<bcb, raw, runVars, job, excused>>

(* "main system reboots into recovery": the reboot reason, not the BCB,    *)
(* selects recovery this first time.                                       *)
MainRebootsIntoRecovery ==
  /\ pc = "main"
  /\ outcome = "pending"
  /\ pc' = "get_args"
  /\ UNCHANGED <<bootVars, ret, task, todo, args, status, fw, ghostVars>>

(* firmware.c:57-60.                                                       *)
BootloaderBoots ==
  /\ pc = "off"
  /\ pc' = CASE bcb.command = "boot-recovery" -> "get_args"
             [] bcb.command = "update"        -> "flash"
             [] OTHER                         -> "main"
  /\ UNCHANGED <<bootVars, ret, task, todo, args, status, fw, ghostVars>>

(* The recovery key combination overrules the BCB.                         *)
UserBootsRecovery ==
  /\ pc = "off"
  /\ pc' = "get_args"
  /\ user' = TRUE
  /\ UNCHANGED <<bootVars, ret, task, todo, args, status, fw,
                 request, outcome, job, excused>>

(* firmware.c:62-73: with or without success the command field becomes     *)
(* "boot-recovery" and the recovery field is left alone.                   *)
BootloaderFlashes ==
  /\ pc = "flash"
  /\ bcb' = [bcb EXCEPT !.command = "boot-recovery"]
  /\ pc' = "off"
  /\ UNCHANGED <<commandFile, intentFile, part, raw,
                 ret, task, todo, args, status, fw,
                 request, outcome, job, excused, user>>

-----------------------------------------------------------------------------
(* get_args() and the choice of what to do.                                *)

(* The BCB arguments win over the command file when there is at least one. *)
GetArgsRead ==
  /\ pc = "get_args"
  /\ \E msg \in {bcb.recovery} \cup (IF BcbFaults THEN {{}} ELSE {}) :
       args' = IF msg # {} THEN msg
               ELSE IF CacheMounts THEN commandFile
               ELSE {}
  /\ pc' = "get_args_bcb"
  /\ UNCHANGED <<bootVars, ret, task, todo, status, fw, ghostVars>>

(* set_bootloader_message, where the caller ignores its result.            *)
SetBcbUnchecked(command, recovery) ==
  \/ bcb' = Bcb(command, recovery)
  \/ BcbFaults /\ UNCHANGED bcb

(* Mutant: the arguments are not put into the message.                     *)
GetArgsWriteNoArgs ==
  /\ pc = "get_args_bcb"
  /\ SetBcbUnchecked("boot-recovery", {})
  /\ pc' = "dispatch"
  /\ UNCHANGED <<commandFile, intentFile, part, raw,
                 ret, task, todo, args, status, fw, ghostVars>>

(* "always boot into recovery after this (until finish_recovery() is       *)
(* called)".                                                               *)
GetArgsWrite ==
  /\ pc = "get_args_bcb"
  /\ SetBcbUnchecked("boot-recovery", args)
  /\ pc' = "dispatch"
  /\ UNCHANGED <<commandFile, intentFile, part, raw,
                 ret, task, todo, args, status, fw, ghostVars>>

WipeDataVolumes ==
  IF HasDatadata THEN <<"data", "datadata", "cache">> ELSE <<"data", "cache">>

(* main(): at most one of the three commands is carried out.               *)
Dispatch ==
  /\ pc = "dispatch"
  /\ \/ /\ "update_package" \in args
        /\ pc' = "install"
        /\ task' = "update_package"
        /\ UNCHANGED <<todo, status, job, user>>
     \/ /\ "update_package" \notin args
        /\ "wipe_data" \in args
        /\ pc' = "erase"
        /\ task' = "wipe_data"
        /\ todo' = WipeDataVolumes
        /\ UNCHANGED <<status, job, user>>
     \/ /\ args \cap Commanded = {"wipe_cache"}
        /\ pc' = "erase"
        /\ task' = "wipe_cache"
        /\ todo' = <<"cache">>
        /\ UNCHANGED <<status, job, user>>
     \/ /\ UserInitiated
        /\ pc' = "extendedcommand"
        /\ status' = "error"
        /\ user' = TRUE
        /\ job' = IF job \in MenuInstalls THEN "none" ELSE job
        /\ UNCHANGED <<task, todo>>
  /\ UNCHANGED <<bootVars, ret, args, fw,
                 request, outcome, excused>>

(* run_and_remove_extendedcommand(): only its result matters here.         *)
ExtendedCommand ==
  /\ pc = "extendedcommand"
  /\ status' \in {"success", "error"}
  /\ pc' = "sideload"
  /\ UNCHANGED <<bootVars, ret, task, todo, args, fw, ghostVars>>

-----------------------------------------------------------------------------
(* erase_volume(), for the commands and for the menu.                      *)

(* What was on the partition is no longer readable.                        *)
DestroyPart(p) ==
  /\ part' = [part EXCEPT ![p] = "half"]
  /\ IF p = "cache"
     THEN commandFile' = {} /\ intentFile' = FALSE /\ raw' = NoRaw
     ELSE UNCHANGED <<commandFile, intentFile, raw>>

EraseStarts ==
  /\ pc = "erase"
  /\ todo # <<>>
  /\ DestroyPart(Head(todo))
  /\ job' = IF task \in Commanded THEN task ELSE job
  /\ excused' = IF task \in Commanded THEN excused \ {Head(todo)}
                ELSE excused \cup {Head(todo)}
  /\ pc' = "erasing"
  /\ UNCHANGED <<bcb, ret, task, todo, args, status, fw,
                 request, outcome, user>>

EraseSucceeds ==
  /\ pc = "erasing"
  /\ part' = [part EXCEPT ![Head(todo)] = "new"]
  /\ excused' = excused \ {Head(todo)}
  /\ todo' = Tail(todo)
  /\ pc' = "erase"
  /\ UNCHANGED <<bcb, commandFile, intentFile, raw, ret, task, args, status, fw,
                 request, outcome, job, user>>

(* format_volume fails, before or after it touched the partition; the next *)
(* volume is erased all the same.                                          *)
EraseFails ==
  /\ pc \in {"erase", "erasing"}
  /\ todo # <<>>
  /\ status' = IF task \in Commanded THEN "error" ELSE status
  /\ excused' = excused \cup {Head(todo)}
  /\ todo' = Tail(todo)
  /\ pc' = "erase"
  /\ UNCHANGED <<bootVars, ret, task, args, fw,
                 request, outcome, job, user>>

EraseDone ==
  /\ pc = "erase"
  /\ todo = <<>>
  /\ task' = "none"
  /\ \/ /\ task \in Commanded
        /\ pc' = "sideload"
        /\ job' = "none"
        /\ outcome' = IF task \in request THEN status ELSE outcome
        /\ UNCHANGED ret
     \/ /\ task = "menu_wipe"
        /\ \/ pc' = "finish" /\ ret' = "prompt"   \* ui_text_visible()
           \/ pc' = "firmware" /\ UNCHANGED ret   \* prompt_and_wait returns
        /\ UNCHANGED <<job, outcome>>
  /\ UNCHANGED <<bootVars, todo, args, status, fw,
                 request, excused, user>>

-----------------------------------------------------------------------------
(* install_package(), for the command, for the menu and for adb sideload.  *)

SideloadCheck ==
  /\ pc = "sideload"
  /\ \/ /\ "sideload" \in args
        /\ pc' = "install"
        /\ task' = "sideload"
        /\ user' = TRUE
     \/ /\ "sideload" \notin args
        /\ pc' = "after"
        /\ UNCHANGED <<task, user>>
  /\ UNCHANGED <<bootVars, ret, todo, args, status, fw,
                 request, outcome, job, excused>>

(* Where install_package returns to, and what its caller does with r.      *)
InstallReturns(r) ==
  /\ task' = "none"
  /\ job' = "none"
  /\ \/ /\ task = "update_package"
        /\ status' = r
        /\ outcome' = IF task \in request THEN r ELSE outcome
        /\ pc' = "sideload"
        /\ UNCHANGED ret
     \/ /\ task = "sideload"
        /\ status' = IF r = "success" THEN r ELSE status
        /\ pc' = "after"
        /\ UNCHANGED <<outcome, ret>>
     \/ /\ task \in MenuInstalls
        /\ pc' = "finish"
        /\ ret' = "prompt"
        /\ UNCHANGED <<outcome, status>>
  /\ UNCHANGED <<bcb, commandFile, intentFile, raw, todo, args,
                 request, user>>

(* The signature does not verify: "Install Untrusted Package?"             *)
InstallUntrusted ==
  /\ pc = "install"
  /\ pc' = "confirm"
  /\ UNCHANGED <<bootVars, ret, task, todo, args, status, fw, ghostVars>>

(* Bad package, an answer of no, a cancelled sideload: nothing is written, *)
(* but an installation that a crash interrupted is given up.               *)
InstallRejected ==
  /\ pc \in {"install", "confirm"}
  /\ excused' = excused \cup {"system"}
  /\ UNCHANGED <<part, fw>>
  /\ InstallReturns("error")

(* The update binary starts to write the system.                           *)
InstallStarts ==
  /\ pc \in {"install", "confirm"}
  /\ part' = [part EXCEPT !["system"] = "half"]
  /\ job' = task
  /\ excused' = IF task \in MenuInstalls THEN excused \cup {"system"}
                ELSE excused \ {"system"}
  /\ pc' = "installing"
  /\ UNCHANGED <<bcb, commandFile, intentFile, raw, ret, task, todo, args,
                 status, fw, request, outcome, user>>

(* The update binary exits with an error.                                  *)
InstallFails ==
  /\ pc = "installing"
  /\ excused' = excused \cup {"system"}
  /\ UNCHANGED <<part, fw>>
  /\ InstallReturns("error")

(* The update binary is done; it may have asked for a firmware image,      *)
(* which handle_firmware_update stores or fails to store (always so when   *)
(* one is already waiting).                                                *)
InstallSucceeds ==
  /\ pc = "installing"
  /\ part' = [part EXCEPT !["system"] = "new"]
  /\ excused' = excused \ {"system"}
  /\ \E carries \in BOOLEAN :
       \E stored \in IF carries /\ ~fw THEN BOOLEAN ELSE {FALSE} :
         /\ fw' = (fw \/ stored)
         /\ InstallReturns(IF carries /\ ~stored THEN "error" ELSE "success")

-----------------------------------------------------------------------------
(* After the command: headless_wait(), prompt_and_wait() or straight on.   *)

CallFinish(r) == pc' = "finish" /\ ret' = r

(* ui_text_visible() depends on a key that may be pressed at any time.     *)
AfterCommand ==
  /\ pc = "after"
  /\ \/ /\ "headless" \in args
        /\ CallFinish("headless")
        /\ UNCHANGED user
     \/ /\ "headless" \notin args
        /\ \/ /\ status = "error" /\ ~UserInitiated   \* error icon only
              /\ pc' = "firmware"
              /\ UNCHANGED <<ret, user>>
           \/ /\ \/ status = "success"                \* text visible
                 \/ UserInitiated
              /\ CallFinish("prompt")
              /\ user' = TRUE
           \/ /\ status = "success"                   \* text not visible
              /\ pc' = "firmware"
              /\ UNCHANGED <<ret, user>>
  /\ UNCHANGED <<bootVars, task, todo, args, status, fw,
                 request, outcome, job, excused>>

(* An item of the main menu is chosen.                                     *)
MenuChoice ==
  /\ pc = "menu"
  /\ \/ /\ pc' = "firmware"                    \* ITEM_REBOOT
        /\ UNCHANGED <<ret, task, todo>>
     \/ /\ pc' = "erase"                       \* wipe_data(), wipe cache
        /\ task' = "menu_wipe"
        /\ todo' \in {<<"data", "cache">> \o
                        (IF HasDatadata THEN <<"datadata">> ELSE <<>>),
                      <<"cache">>}
        /\ UNCHANGED ret
     \/ /\ pc' = IF Mtd THEN "menu_bcb" ELSE "install"   \* install_zip()
        /\ task' = "menu_install"
        /\ UNCHANGED <<ret, todo>>
     \/ /\ pc' = "install"                     \* apply_from_adb(): no BCB
        /\ task' = "menu_sideload"
        /\ UNCHANGED <<ret, todo>>
     \/ /\ CallFinish("reboot")                \* reboot items of "advanced"
        /\ UNCHANGED <<task, todo>>
     \/ /\ CallFinish("prompt")                \* everything else
        /\ UNCHANGED <<task, todo>>
  /\ UNCHANGED <<bootVars, args, status, fw, ghostVars>>

(* set_sdcard_update_bootloader_message()                                  *)
SetSdcardUpdateBootloaderMessage ==
  /\ pc = "menu_bcb"
  /\ SetBcbUnchecked("boot-recovery", {})
  /\ pc' = "install"
  /\ UNCHANGED <<commandFile, intentFile, part, raw,
                 ret, task, todo, args, status, fw, ghostVars>>

(* headless_wait() calls finish_recovery() for ever.                       *)
HeadlessWait ==
  /\ pc = "headless_wait"
  /\ CallFinish("headless")
  /\ UNCHANGED <<bootVars, task, todo, args, status, fw, ghostVars>>

-----------------------------------------------------------------------------
(* finish_recovery(): intent, BCB, command file, in this order.            *)

FinishIntent ==
  /\ pc = "finish"
  /\ intentFile' = (intentFile \/
                      (ret = "final" /\ "send_intent" \in args /\ CacheMounts))
  /\ pc' = "finish_bcb"
  /\ UNCHANGED <<bcb, commandFile, part, raw,
                 ret, task, todo, args, status, fw, ghostVars>>

(* Mutant: finish_recovery leaves the message alone.                       *)
FinishBcbNot ==
  /\ pc = "finish_bcb"
  /\ pc' = "finish_unlink"
  /\ UNCHANGED <<bootVars, ret, task, todo, args, status, fw, ghostVars>>

FinishBcb ==
  /\ pc = "finish_bcb"
  /\ SetBcbUnchecked("", {})
  /\ pc' = "finish_unlink"
  /\ UNCHANGED <<commandFile, intentFile, part, raw,
                 ret, task, todo, args, status, fw, ghostVars>>

(* The command file goes (or stays, when /cache does not mount), and       *)
(* control returns; reboot_main_system() calls finish_recovery() again     *)
(* before the reboot.                                                      *)
FinishUnlink ==
  /\ pc = "finish_unlink"
  /\ commandFile' = IF CacheMounts THEN {} ELSE commandFile
  /\ \/ /\ ret = "prompt"
        /\ pc' = "menu"
        /\ UNCHANGED <<ret, task, todo, args, status, fw>>
     \/ /\ ret = "headless"
        /\ pc' = "headless_wait"
        /\ UNCHANGED <<ret, task, todo, args, status, fw>>
     \/ /\ ret = "final"
        /\ CallFinish("reboot")
        /\ UNCHANGED <<task, todo, args, status, fw>>
     \/ /\ ret = "reboot"
        /\ PowerOff
  /\ UNCHANGED <<bcb, intentFile, part, raw, ghostVars>>

-----------------------------------------------------------------------------
(* maybe_install_firmware_update() and write_update_for_bootloader().      *)

(* Mutants: /cache is not to be wiped afterwards; the intent is forgotten. *)
FirmwareMessageNoWipe    == args \cap {"send_intent"}
FirmwareMessageNoIntent  == {"wipe_cache"}

FirmwareMessage == {"wipe_cache"} \cup (args \cap {"send_intent"})

(* Mutant: the message has arguments but no command yet.                   *)
FirmwareStartsNoCommand ==
  /\ pc = "firmware"
  /\ IF fw
     THEN bcb' = Bcb("", FirmwareMessage) /\ pc' = "fw_header0" /\ UNCHANGED ret
     ELSE CallFinish("final") /\ UNCHANGED bcb
  /\ UNCHANGED <<commandFile, intentFile, part, raw,
                 task, todo, args, status, fw, ghostVars>>

(* "Set up this instruction now, in case we're interrupted while writing." *)
FirmwareStarts ==
  /\ pc = "firmware"
  /\ \/ /\ ~fw
        /\ CallFinish("final")
        /\ UNCHANGED <<bcb>>
     \/ /\ fw
        /\ bcb' = Bcb("boot-recovery", FirmwareMessage)
        /\ pc' = "fw_header0"
        /\ UNCHANGED ret
     \/ /\ fw /\ BcbFaults
        /\ CallFinish("final")
        /\ UNCHANGED bcb
  /\ UNCHANGED <<commandFile, intentFile, part, raw, task, todo, args, status, fw,
                 request, outcome, job, excused, user>>

(* Mutant: the final header is written first.                              *)
WriteHeaderFirst ==
  /\ pc = "fw_header0"
  /\ Mtd
  /\ part' = [part EXCEPT !["cache"] = "half"]
  /\ commandFile' = {}
  /\ intentFile' = FALSE
  /\ raw' = [header |-> TRUE, whole |-> FALSE]
  /\ job' = "firmware"
  /\ excused' = excused \ {"cache"}
  /\ pc' = "fw_image"
  /\ UNCHANGED <<bcb, ret, task, todo, args, status, fw,
                 request, outcome, user>>

(* An invalid header first; "this destroys any filesystem".                *)
WriteZeroHeader ==
  /\ pc = "fw_header0"
  /\ Mtd
  /\ DestroyPart("cache")
  /\ job' = "firmware"
  /\ excused' = excused \ {"cache"}
  /\ pc' = "fw_image"
  /\ UNCHANGED <<bcb, ret, task, todo, args, status, fw,
                 request, outcome, user>>

WriteImage ==
  /\ pc = "fw_image"
  /\ raw' = [raw EXCEPT !.whole = TRUE]
  /\ pc' = "fw_header"
  /\ UNCHANGED <<bcb, commandFile, intentFile, part,
                 ret, task, todo, args, status, fw, ghostVars>>

(* "Write the header last, after all the blocks it refers to".             *)
WriteHeader ==
  /\ pc = "fw_header"
  /\ raw' = [raw EXCEPT !.header = TRUE]
  /\ pc' = "fw_update"
  /\ UNCHANGED <<bcb, commandFile, intentFile, part,
                 ret, task, todo, args, status, fw, ghostVars>>

(* The partition cannot be unmounted or found, or a write fails.           *)
WriteUpdateFails ==
  /\ pc \in {"fw_header0", "fw_image", "fw_header"}
  /\ pc' = "fw_cleanup"
  /\ UNCHANGED <<bootVars, ret, task, todo, args, status, fw, ghostVars>>

(* "The update image is fully written, so now we can instruct the          *)
(* bootloader to install it", and reboot().                                *)
InstructBootloader ==
  /\ pc = "fw_update"
  /\ \/ /\ bcb' = [bcb EXCEPT !.command = "update"]
        /\ PowerOff
     \/ /\ BcbFaults
        /\ pc' = "fw_cleanup"
        /\ UNCHANGED <<bcb, ret, task, todo, args, status, fw>>
  /\ UNCHANGED <<commandFile, intentFile, part, raw, ghostVars>>

(* "Attempt to clean cache up, at least": the image is given up.           *)
CleanCacheUp ==
  /\ pc = "fw_cleanup"
  /\ \/ /\ part' = [part EXCEPT !["cache"] = "new"]
        /\ commandFile' = {}
        /\ intentFile' = FALSE
        /\ raw' = NoRaw
        /\ excused' = excused \ {"cache"}
     \/ /\ excused' = excused \cup {"cache"}
        /\ UNCHANGED <<part, commandFile, intentFile, raw>>
  /\ job' = "none"
  /\ CallFinish("final")
  /\ UNCHANGED <<bcb, task, todo, args, status, fw,
                 request, outcome, user>>

-----------------------------------------------------------------------------
MainSystem == (\E r \in Requests : MainWritesCommand(r)) \/ MainRebootsIntoRecovery

Bootloader == BootloaderBoots \/ BootloaderFlashes

Recovery ==
  \/ GetArgsRead \/ GetArgsWrite \/ Dispatch \/ ExtendedCommand
  \/ EraseStarts \/ EraseSucceeds \/ EraseFails \/ EraseDone
  \/ SideloadCheck
  \/ InstallUntrusted \/ InstallRejected \/ InstallStarts \/ InstallFails \/ InstallSucceeds
  \/ AfterCommand \/ MenuChoice \/ SetSdcardUpdateBootloaderMessage
  \/ HeadlessWait
  \/ FinishIntent \/ FinishBcb \/ FinishUnlink
  \/ FirmwareStarts \/ WriteZeroHeader \/ WriteImage \/ WriteHeader
  \/ WriteUpdateFails \/ InstructBootloader \/ CleanCacheUp

PowerLoss == Crash \/ CrashInBcbWrite

Powered == MainSystem \/ Bootloader \/ UserBootsRecovery \/ Recovery

Next == Powered \/ PowerLoss

Spec == Init /\ [][Next]_vars

-----------------------------------------------------------------------------
(* Recovery waits for a person at a menu or a question, or for the host    *)
(* that is to send a package.                                              *)
Waits ==
  \/ pc \in {"menu", "confirm"}
  \/ pc = "install" /\ task \in {"sideload", "menu_sideload"}

(* A power loss may come at any step but not for ever; recovery runs when  *)
(* it does not wait, and the bootloader whenever it can.  Nothing is       *)
(* assumed of the user, the host or the main system.                       *)
FinitelyManyPowerLosses == <>[][Powered]_vars

FairSpec ==
  /\ Spec
  /\ WF_vars(~Waits /\ Recovery) /\ WF_vars(Bootloader)
  /\ FinitelyManyPowerLosses

-----------------------------------------------------------------------------
(* "These important scenarios must be safely restartable at any point"     *)
(* (recovery.c:95): the main system never runs on a partition that an      *)
(* interrupted command left half written.  Only a failure that recovery    *)
(* reported, or a choice from the menu, excuses one.                       *)
MainSystemWhole ==
  pc = "main" => \A p \in Parts : part[p] = "half" => p \in excused

(* From the first destructive write of a command until its end the BCB     *)
(* brings the device back to recovery with the argument that restarts that *)
(* very work (get_args, recovery.c:228-237; firmware.c:82-96).  A package  *)
(* chosen from the menu is only brought back to the menu, and only where   *)
(* install_zip sets the BCB; a sideload from the menu is not.              *)
Restartable ==
  /\ job \in Commanded \cup {"sideload"} =>
       bcb.command = "boot-recovery" /\ job \in bcb.recovery
  /\ job = "firmware" => bcb.command # "" /\ "wipe_cache" \in bcb.recovery
  /\ job = "menu_install" /\ Mtd => bcb.command = "boot-recovery"

(* The bootloader is told to flash only a completely written image         *)
(* (firmware.c:116-121), and an image has a valid header only once all     *)
(* it refers to is written (bootloader.c:325-344), whatever crash,         *)
(* reformat or manual boot into recovery comes in between.                 *)
FlashImageWhole ==
  /\ bcb.command = "update" => raw.header
  /\ raw.header => raw.whole /\ part["cache"] = "half"

(* The header is the last thing written even when BCB accesses fail.       *)
HeaderLast ==
  raw.header => raw.whole /\ part["cache"] = "half"

(* --send_intent: when the main system runs again after the command ended  *)
(* and nobody interfered, the intent is in /cache, also when a firmware    *)
(* update and a format of /cache came in between (firmware.c:91-95).  A    *)
(* headless command never gets to the finish_recovery(send_intent) at the  *)
(* end of main().                                                          *)
IntentDelivered ==
  pc = "main" /\ "send_intent" \in request /\ "headless" \notin request
    /\ outcome \in {"success", "error"} /\ ~user /\ CacheMounts
  => intentFile

(* "Reset to normal system boot so recovery won't cycle indefinitely"      *)
(* (recovery.c:322): once finish_recovery has cleared the BCB of an ended  *)
(* command, only the user can make the device run recovery again; a stale  *)
(* command file alone never does.                                          *)
RetiredStaysRetired ==
  [][bcb.command = "" /\ bcb'.command # "" /\ outcome # "pending" => user]_vars

(* Every command recorded in the BCB is retired once the power losses      *)
(* stop, as long as no question and no sideload is left to wait for ever:  *)
(* whatever the answers are, recovery does not cycle.                      *)
CommandRetired == []<>~Waits => (bcb.command # "" ~> bcb.command = "")

-----------------------------------------------------------------------------
(* The inductive invariant behind these properties, for a BCB that neither *)
(* fails nor tears.                                                        *)

BcbWorks == ~BcbFaults /\ ~BcbTears

CommandPcs  == {"dispatch", "extendedcommand", "sideload"}
ErasePcs    == {"erase", "erasing"}
InstallPcs  == {"install", "confirm", "installing"}
FirmwarePcs == {"fw_image", "fw_header", "fw_update", "fw_cleanup"}
FinishPcs   == {"finish", "finish_bcb", "finish_unlink"}
QuietPcs    == {"main", "after", "menu", "menu_bcb", "headless_wait", "firmware",
                "fw_header0", "finish", "finish_bcb", "finish_unlink"}

Volumes(s) == {s[n] : n \in 1..Len(s)}

(* The partitions that a boot with these options writes.                   *)
Redo(options) ==
  (IF "update_package" \in options THEN {"system"}
   ELSE IF "wipe_data" \in options THEN Volumes(WipeDataVolumes)
   ELSE IF "wipe_cache" \in options THEN {"cache"}
   ELSE {})
  \cup (IF "sideload" \in options THEN {"system"} ELSE {})

(* What the rest of this boot, or the next one, writes again.              *)
Pending ==
  CASE pc \in {"off", "flash", "get_args", "get_args_bcb"} ->
         IF bcb.command = "" THEN {} ELSE Redo(bcb.recovery)
    [] pc = "dispatch" -> Redo(args)
    [] pc \in ErasePcs ->
         (IF task \in Commanded THEN Volumes(todo) ELSE {}) \cup
         (IF task \in Commanded /\ "sideload" \in args THEN {"system"} ELSE {})
    [] pc \in InstallPcs -> IF task \in MenuInstalls THEN {} ELSE {"system"}
    [] pc \in {"extendedcommand", "sideload"} ->
         IF "sideload" \in args THEN {"system"} ELSE {}
    [] pc \in FirmwarePcs -> {"cache"}
    [] OTHER -> {}

(* No half-written partition is forgotten.                                 *)
HalfInv == \A p \in Parts : part[p] = "half" => p \in excused \cup Pending

(* What the BCB says while recovery works on a command.                    *)
BcbInv ==
  /\ pc = "get_args_bcb" /\ bcb.recovery # {} => args = bcb.recovery
  /\ \/ pc \in CommandPcs
     \/ pc \in ErasePcs /\ task \in Commanded
     \/ pc \in InstallPcs /\ task \notin MenuInstalls
     => bcb = Bcb("boot-recovery", args)
  /\ pc \in FirmwarePcs \cup {"fw_header0"} =>
       bcb = Bcb("boot-recovery", FirmwareMessage)
  /\ pc \in InstallPcs /\ task = "menu_install" /\ Mtd =>
       bcb.command = "boot-recovery"
  /\ pc \notin {"off", "flash", "get_args", "get_args_bcb"} =>
       bcb.command # "update"

TaskInv ==
  /\ pc \in ErasePcs => task \in {"wipe_data", "wipe_cache", "menu_wipe"}
  /\ pc \in InstallPcs => task \in {"update_package", "sideload"} \cup MenuInstalls
  /\ pc = "menu_bcb" => task = "menu_install"
  /\ pc \in ErasePcs \cup InstallPcs /\ task \in Commanded \cup {"sideload"} =>
       task \in args
  /\ pc \in ErasePcs /\ task \in Commanded => Volumes(todo) \subseteq Redo(args)
  /\ pc = "erasing" => todo # <<>>

JobInv ==
  /\ pc \in FirmwarePcs \ {"fw_cleanup"} => job = "firmware"
  /\ job # "menu_wipe"
  /\ pc \in QuietPcs \ {"main"} => job = "none"
  /\ pc = "main" => job \in {"none"} \cup MenuInstalls
  /\ pc \in ErasePcs /\ task = "menu_wipe" => job = "none"
  /\ pc \in {"install", "confirm"} /\ task \in MenuInstalls => job = "none"
  /\ pc \in {"extendedcommand", "sideload"} => job \in {"none", "sideload"}

RawInv ==
  /\ pc = "erasing" /\ Head(todo) = "cache" => ~raw.header
  /\ pc = "fw_image" => part["cache"] = "half"
  /\ pc = "fw_header" => raw.whole /\ part["cache"] = "half"
  /\ pc = "fw_update" => raw.header

(* What makes recovery run, or go on, once the BCB is cleared: a command   *)
(* that is still to be carried out, or the user.                           *)
RetireInv ==
  /\ pc \in {"get_args", "get_args_bcb"} =>
       user \/ outcome = "pending" \/ bcb.command # ""
  /\ pc \in CommandPcs \cup ErasePcs \cup InstallPcs \cup {"after", "firmware"} =>
       user \/ bcb.command # ""
  /\ pc \in {"menu", "menu_bcb"} => user
  /\ pc \in FinishPcs /\ ret = "prompt" => user
  /\ pc \in ErasePcs \cup InstallPcs /\ task \in {"menu_wipe"} \cup MenuInstalls => user
  /\ pc \in FirmwarePcs \cup {"fw_header0", "flash"} => bcb.command # ""

(* A command whose intent is owed to the main system.                      *)
Owed == ~user /\ "send_intent" \in request /\ "headless" \notin request

(* The options that finish_recovery will see, and what is left to do.      *)
Carries(options) ==
  /\ "send_intent" \in options
  /\ "headless" \notin options
  /\ outcome = "pending" => options = request

Delivered == intentFile \/ ~CacheMounts

(* The intent is on its way in the command file, then in the BCB and in    *)
(* args, and is delivered before the BCB is cleared.                       *)
IntentInv ==
  /\ bcb.command = "" => bcb.recovery = {}
  /\ pc = "main" => bcb.command = ""
  /\ Owed =>
       /\ bcb.command # "" => Carries(bcb.recovery)
       /\ bcb.command = "" /\ outcome = "pending" =>
            /\ pc \in {"main", "off", "get_args", "get_args_bcb"}
            /\ commandFile = request /\ CacheMounts
       /\ bcb.command = "" /\ outcome # "pending" =>
            pc \in {"main", "off"} \cup FinishPcs /\ Delivered
       /\ pc \in RecoveryPcs \ {"get_args"} => Carries(args)
       /\ pc \in FinishPcs \cup FirmwarePcs \cup
                   {"sideload", "after", "firmware", "fw_header0"} =>
            outcome # "pending"
       /\ pc \notin {"extendedcommand", "menu", "menu_bcb", "headless_wait"}
       /\ pc \in ErasePcs \cup InstallPcs => task \in Commanded
       /\ pc \in FinishPcs => ret \in {"final", "reboot"}
       /\ pc \in FinishPcs /\ (pc # "finish" \/ ret = "reboot") => Delivered

HeaderInv == TypeOK /\ HeaderLast /\ RawInv

IInv ==
  /\ HeaderInv /\ FlashImageWhole /\ HalfInv /\ BcbInv /\ TaskInv /\ JobInv
  /\ Restartable /\ RetireInv /\ IntentInv

=============================================================================
