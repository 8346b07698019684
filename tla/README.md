# Verification of the recovery tool

The repository is a ClockworkMod-based Android recovery: a small system that a
device boots instead of Android to install updates, wipe partitions, back them
up and restore them. This directory holds TLA+ modules that model its parts,
configurations with which TLC checks them on small instances, and proofs that
TLAPS checks for all values of the constants. `PROJECT.json` lists runs,
mutants, hazards, findings, theorems, and for every definition the source lines
it stands for.

    tlc -config boot_restart.cfg MCRecoveryBoot     # one run
    tlapm RecoveryBootProofs.tla                    # one proof module

## 1. The system

### Parts, their state, and what can go wrong in them

| Part | Source | State | Hard behaviour |
|---|---|---|---|
| Restart protocol | recovery.c, bootloader.c, firmware.c | bootloader control block (BCB) on /misc, /cache/recovery/command, partitions | power loss between any two durable writes; a firmware image that overwrites the /cache the command lives in |
| Package installation | install.c | update binary (child process) and its command pipe | failure after half of /system is written; a firmware image handed over |
| Patching | applypatch/, updater/install.c | files and partitions, one cached copy of the source | power loss while the only source is deleted; the script is run again from the start |
| Update script | updater/, edify/ | the script's position, mounted volumes | abort in the middle, partial effects |
| User interface | ui.c, default_recovery_*.c | key queue, key state, menu, progress | input thread, progress thread and main thread share state; a timeout races a key |
| Menus | extendedcommands.c, recovery.c | selected item, mounted volumes | volume events that rebuild a menu under the user |
| adb sideload | adb_install.c, minadbd/services.c | child process, waiting thread, /tmp/update.zip | cancel races completion; an incomplete file |
| adb daemon | minadbd/ | transports, sockets, packets | two transport threads and the event loop; disconnects with packets in flight |
| Backups | nandroid.c, nandroid_md5.c, dedupe/ | images, manifests, blob store | a partition is formatted before its image is restored; blobs shared by backups |
| Volumes | roots.c, mounts.c | volume table, mount table | mount table stale, a volume managed by vold |
| vold client | voldclient/ | socket, volume list, a command in progress | an event thread and a command thread; lost connection while waiting |
| Raw flash | mtdutils/, mmcutils/, bmlutils/, flashutils/ | read and write contexts, bad blocks | erase before write, bad blocks in the middle |
| Zip and signatures | minzip/, verifier.c | none that outlives a call | format boundaries |
| System helpers | libcrecovery/, propsrvc/, reboot/, prop.c, loki/ | children, property area | children left behind |

### How they interact

The main system writes `/cache/recovery/command` and reboots. The bootloader
starts recovery, whose `get_args` moves the command into the BCB, so that the
bootloader comes back to recovery until `finish_recovery` clears it. In between
recovery erases volumes (volumes, raw flash), or installs a package: the update
binary evaluates a script whose `apply_patch` calls patch files. A package may
leave a firmware image, which is written raw over /cache and flashed by the
bootloader. When the user is involved the menus take over; they install zips,
run backups and sideload packages over adb.

### What must be true

* A command interrupted anywhere is taken up again; the main system is not
  started on a half-written partition; a finished command is not repeated.
* Every file being patched stays recoverable; reported success means patched.
* A firmware image is flashed only when it is complete.
* What recovery believes of the volumes is what vold last said; a command that
  is waited for returns, with its own result; a reboot leaves nothing mounted.
* A restored backup is what was backed up; a finished deduplicated backup stays
  restorable; raw flash gives back the image that was written to it; the media
  of the user survive a format of /data.
* An installation ends; success means that the script ran to its end; a script
  does nothing after an abort; a patch gives back exactly the new file.
* Every packet of a sideload reaches its service once and in order; nothing is
  called after it was freed; a replugged cable works again.
* Every key press is answered once, or as long as the key is held; a sideload
  ends when its child ends, and leaves nothing behind that disturbs a later menu.

## 2. Modules

| Module | Models |
|---|---|
| `RecoveryBoot` | the restart protocol, with the install and erase work it protects |
| `ApplyPatch` | a script of `apply_patch` calls under crashes and I/O errors |
| `Edify` | the script interpreter and the functions the updater registers |
| `UpdaterRun` | `try_update_binary`: extends `Edify` with the updater process, its pipe, the installer and the progress bar |
| `HashTable` | the hash table of minzip |
| `ZipArchive` | reading, searching and extracting a package: extends `HashTable` |
| `BsDiff`, `ImgDiff` | making and applying patches of strings, and of images and zip files |
| `VoldClient` | the main thread, the event thread and vold around one socket |
| `Volumes` | mounting, unmounting and formatting |
| `Nandroid` | backup, checksums and restore |
| `Dedupe` | the deduplicating store |
| `MtdFlash`, `ByteStream` | raw NAND partitions, and the byte stream they implement |
| `MenuInput` | the key queue between the input thread, the vold event thread and the main thread in a menu |
| `Sideload` | `apply_from_adb`: extends `MenuInput` with the child, the thread that waits for it and the received file |
| `Adb` | minadbd, the daemon inside that child |
| `MC...` | instances for TLC |
| `...Proofs`, `VoldClientSteps`, `AdbStreamSteps` | theorems, and the lemmas of their steps |

Conventions. A history variable that only properties read is marked "ghost".
An operator marked "mutant" is a plausible mistake in the definition that
follows it and is used by no specification. The state predicates of a module are
stated and commented one by one; where a run checks them together, their
conjunction with the type invariant is the module's `...Inv` (`RunInv`,
`TabInv`, `ZipInv`, `DiffInv`, `ImgInv`, `VoldInv`, `SideloadInv`,
`NandroidInv`, `DedupeInv`, `VolInv`, `SocketInv`, `StreamInv`).

Components that share no state are checked in one run as a sum: a variable
`which`, chosen in the initial state, says the one that runs, and the others hold
still in one state (`MCStorage`, `MCThreads`, `MCScript`, `MCPatchTools`). What one of them
takes from another is stated where it is used: Nandroid takes the outcome of a
format or of a raw write as given, and shows what becomes of the backup with each.

### RecoveryBoot

State that survives a power loss: `bcb` (command and recovery fields),
`commandFile`, `intentFile`, `part` (per partition old, half written or new) and
`raw` (the firmware image on the cache partition). State of the process: `pc`,
`ret` (where `finish_recovery` returns to), `task`, `todo`, `args`, `status`,
`fw` (`update_data != NULL`). The remaining variables are history that only
properties read: `request` and `outcome` of the last command, `job` (work that
has destroyed something and has not ended), `excused` (half-written partitions
recovery reported or the user caused) and `user`.

A step is one durable write, so `Crash` can fall between any two:
`get_args` is `GetArgsRead` and `GetArgsWrite`; `finish_recovery` is
`FinishIntent`, `FinishBcb`, `FinishUnlink`; a format is `EraseStarts` and
`EraseSucceeds` or `EraseFails`; `maybe_install_firmware_update` is
`FirmwareStarts`, `WriteZeroHeader`, `WriteImage`, `WriteHeader`,
`InstructBootloader`, with `WriteUpdateFails` and `CleanCacheUp` for its error
paths. The main system and the bootloader are external and do what the comments
recovery.c:80-136 and firmware.c:47-77 rely on. `BcbFaults` lets BCB accesses
fail, `BcbTears` lets a power loss leave the BCB page erased, as the
erase-before-write of `mtd_write_data` does.

An untrusted package is a question to the user (`InstallUntrusted`, pc "confirm").
The menu installs a package with the command in the BCB, or sideloads one without
(`MenuInstalls`; task "menu_sideload", extendedcommands.c:271); what an install from
the menu leaves half written the user has caused, and it is `excused`. `Waits` are the states
in which recovery waits for a person or for the host.

Abstracted: an argument list is a set of options (their order does not matter to
getopt), package names, locales, logs, /sd-ext and .android_secure, and options
that only change the display. Developer file `/tmp/.ignorebootmessage` is left
out.

### ApplyPatch

An item is one `apply_patch` call. `content` gives for every file or partition
the version stored there: the item's old or new version, `Junk` or `Missing`,
which is all that the SHA-1 comparisons of the code distinguish. `copy` is
`CACHE_TEMP_SOURCE`. `CheckSpace`, `SaveTruncates`, `SaveWrites`,
`UnlinkSource`, `PatchApplies`, `RenameOutput` or `PartitionWriteStarts`/`Ends`
and `DropCopy` are the durable steps of `GenerateTarget`; each failure return of
the code is an action of its own. How much space is free is left to the
environment: of `MakeFreeSpaceOnCache` only the failure is modelled, not which old
files it deletes. `Checks` is the set of items the script asserts with
`apply_patch_check` before it patches anything; a missing file is refused before the
copy is looked at. `Asserted` is the set of items whose `apply_patch` the script
asserts: `ApplyPatchFn` gives "" for a failed call (updater/install.c:1180), which
ends an asserted script (`ReturnFailure`); after a bare call the script goes on with
the next item. Abstracted: the table of files kept by the CyanogenMod backup tool
(`totalbaks` is 0; `Edify` has it), one source version per item. A partition that cannot be read
at all is taken to hold junk; the copy saved from it then fails to be written.

### VoldClient

`toVold` and `toClient` are the two directions of the socket, in order. `exec`,
`listed` and `vstate` belong to vold, which is external: it runs one command
after the other (`VoldTakes`, `VoldLists`, `VoldBegins`, `VoldEnds`), reports
states before results, and tells of disks at any time (`MediaEvent`). `list`,
`listing`, `inflight`, `result` and `automount` are the static variables of
dispatcher.c and event_loop.c. The main thread performs `todo`, the primitive
operations of a call (sharing a mounted volume is an unmount and a share,
`vold_unmount_all` two operations per node, `UnmountSteps`); each is skipped by the state checks
of commands.c (`MainSkips`) or sent and waited for (`MainSends`, `MainWakes`).
The event thread connects, reads, dispatches one message by its kind, sends
automounts and completes commands. What runs under the client's mutex is one
step; the read lock that `vold_unmount_all` holds while it waits is `held`.
With `VoldCrashes` vold may die and come back: a write to the hung-up socket ends
the process (SIGPIPE is not ignored), and after the event thread has closed the
descriptor, `sock` keeps its number. Abstracted: the passing states of a volume
are one, messages arrive whole, a spurious wake-up of `vold_client_start`, the reuse of the closed number, and the
unlock at the end of `monitor` of a mutex it may not hold (event_loop.c:177-179).

### MenuInput and Sideload

`queue`, `pressed`, `repeated` (`key_last_repeat > 0`), `repeatOn` and `changed`
(`v_changed`) are the shared variables; `pc` follows the main thread through
`get_menu_selection`, `ui_wait_key` and `ui_wait_key_with_repeat`. Time is not
modelled: a wait may time out whenever it waits, a held key is due or not. The
two accesses of `volumes_changed` to an unprotected flag are two steps, and the
second may or may not be compiled as a read of its own. `owed` counts the presses
not yet answered. In `Sideload` a menu that ends, in whatever way, ends the
sideload; the main thread kills the child (which may go on writing until the
signal arrives), joins the waiting thread, clears the queue, installs the file it
finds and removes it. A failed fork leaves no child, and the waiting thread ends at
once; that `kill` is then called with -1 (adb_install.c:130) has no effect on the
state modelled here. Left out: a failing `pthread_create` (its result is not looked
at), and the key combination that reboots at once (ui.c:506-508).

### Edify and UpdaterRun

`Edify` is the interpreter as a function: `Eval(D, e)` gives the set of outcomes
of evaluating expression `e` on device `D`, each a new device and a value. There
is one operator per registered function of updater/install.c; each lists what the
function does and every way it may fail: `ErrorAbort`, a NULL without a message,
an empty string, or a null pointer it follows. Arguments that the code refuses when
they are empty are `Unusable`; `Crashes` is the end of the updater by a null pointer
of `apply_patch` or `apply_patch_check`, and by the clean-up loop of `delete`, which
counts the wrong variable (`DeleteStops`); `SkipPatch` passes over the files of the
backup table. `Does` records an effect that comes after a NULL. `UpdaterRun` runs three parties over that device. The
updater evaluates one top-level statement a step (`Statement`) and writes its
commands to the pipe, which blocks it when full (`WriteCommand`); it may give up
before the script, abort, crash or be killed. The installer starts it, obeys
commands until the pipe is at its end, which a program left running by the
script holds open, and then waits (`StartUpdater`, `ReadCommand`, `ReadEnds`,
`WaitUpdater`). When the fork fails, `waitpid` leaves `status` as it was, never
initialised: it may read as success or as failure ("unset"). The progress thread moves the bar (`ProgressTick`). Abstracted:
strings are empty or not, the command line of a statement is one call, which
updaters need the legacy property area is the environment's choice, and the time
the progress thread reads may jump. Left out: a failing `pipe()`, and the `firmware`
command (install.c:324-335 and 367-371), which no function of this updater writes;
what comes of a firmware image is in `RecoveryBoot`.

### HashTable, ZipArchive, BsDiff, ImgDiff

`HashTable` has the actions `AddItem`, `RemoveItem` and `ClearTable` with the
probing, the tombstones and the growth of minzip/Hash.c. It is the table as its
interface allows it to be used: nothing in the repository calls `mzHashTableRemove`.
`ZipArchive` reads the
central directory entry by entry into the sorted array and the table
(`ParseEntry`, `ParseEnds`), finds entries, and extracts the entries below a
directory one by one (`Extract`, `ExtractNext`, `ExtractEnds`), with the
directories, symbolic links, flags and failures of `mzExtractRecursive`. Names
are real character sequences, because the range of a directory is found by
comparing them; contents are numbers of buffers.

`BsDiff` follows the loop of bsdiff over `scan`, `lastscan` and `lastpos` (one
step per control triple) and then bspatch over the three blocks. The suffix array
is defined by sorting; the binary search in it is the code's. bzip2 and the files may
fail (`DiffFails`). `ImgDiff` breaks two images into chunks, tries to recompress the
deflated ones, merges and pairs them, makes a patch and applies it. An image is a
sequence of tokens; a deflate stream is data with the level it was made at. A
damaged image is refused (`FooterDiffers`) or keeps `ReadImage` for ever (`Endless`),
a zip file may be refused (`ReadZipEnds`); a failing sink ends the application of a
patch, but for a normal chunk, whose result is ignored (`SinkFails`).

### Nandroid and Dedupe

`part` says what each partition holds, `dir` and `md5` what the backup directory
and nandroid.md5 say of each image file. `BackupBegin` and `BackupEnd` are the
two ends of writing an image, `Md5Gen` the checksum file, `Md5Check` its check
with the questions it asks, `RestoreFormat` and `RestoreWrite` the two halves of
restoring a partition. A restore looks for the images of seven file systems
(nandroid.c:670); one on another (exfat, ntfs, auto) is backed up and checked, but not
in `Sought`, and the restore passes over it with 0. The partitions in `Swept` are
emptied by `rm -rf`, whose result is ignored: older files may stay among the restored
ones ("mixed"). A deduplicated image that returned 0 may have a manifest that a full
disk cut (`Written`: "cut"). `PowerLoss` may come anywhere; `Use`, `Damage` and
`DeleteBackup` are what happens to device and backup in between. Abstracted: an
image is sound, cut or bad, and an archive may be in pieces.

`Dedupe` keeps blobs and manifests. `StoreStart`, `StoreKnown`, `CopyStart`,
`CopyEnd`, `CopyFails`, `StoreFails`, `StoreEnd` are the walk of a backup, `GcRead`,
`GcRemove` and `GcEnd` a collection. Writing a manifest is not checked: `StoreEnd` may
leave a torn one with some of the lines, and result 0. A blob that was renamed and not synced may be cut short
by a power loss, and its manifest torn; that a cut file shows by its size is an
assumption about the file system, stated at `DedupePowerLoss`. A hash stands for
the content.

### MtdFlash, ByteStream, Volumes

`MtdFlash` is mtd_write_data, write_block and the read loop, one step per piece or
block: `Coalesce` fills the buffer, `SkipBad`, `GiveUp` and `WriteBlock` are the
outcomes for the block at hand, `EraseRest` and `CloseWrite` the end of a restore,
`ReadBlock`, `ReadStops` (the ECC statistics cannot be had) and `ReadEnd` a backup. The bytes of an image are all different, so
that a lost, repeated or moved byte shows. `ByteStream` is what writers rely on.
`where` records the place of every byte written. With `stream` mapped to what the
flash now holds in these places (`OnFlash`) followed by the buffer, `MtdFlash`
implements it (`WritesStream`).

`Volumes` has the functions of roots.c as operators from a device record to the
set of records they may leave, with the value they return; a menu item, a wipe and
the format of a restore are actions (`MountItem`, `FormatItem`, `FormatAll`,
`FormatSdcard`, `EraseVolume`, `RestoreFormats`). `mounts` is /proc/mounts in
order, of which `Scan` sees the first lines only. `RmAll` is the `rm -rf` of
format_unknown_device, which may remove all, a part or nothing and counts as done;
`DataLike` are the paths that begin with /data (/datadata too, roots.c:319), and
`Skipped` is a format that was passed over and returns 0. Files arriving on a mounted
volume and mounts by vold are external.

### Adb

`tr` holds a transport per USB session: its reference count, its two threads and
whether it was kicked. `up` and `down` are its socket pair, `reg` the registration
socket. The event loop gathers what is ready into `pend` (`FdeventProcess`) and
then calls one handler a step (`TransportRegistration`, `TransportSocket`,
`LocalSocket`), so that a handler can free what a later entry names. `HandlePacket`
is handle_packet of adb.c, with one action for each case of its switch (`HandleSync`
to `HandleWrite`; `HandleNothing` when the transport is offline or the socket gone). A call of sockets.c is an
operator on a record of one socket and what has been sent (`Call`, `Return`): no
call changes another socket, but for the disconnects of a transport
(`RunTransportDisconnects`). The threads are `OutputStart`, `OutputRead`,
`OutputOffline`, `InputPacket`, `CloseAllSockets`, `ThreadKick`, `ThreadUnref`; the
service thread `ServiceReads`, `ServiceFails`, `ServiceAnswers`, `ServiceCloses`. The
daemon is a process of its own that exits after a sideload that is complete, and when
the file cannot be created (`Exits`; services.c:56-59 and 77-81): from then on
nothing happens (`InProcess`, `DaemonSpec`). The host is
external (`HostConnects`, `HostOpens`, `HostWrites`, `HostAcks`, `HostCloses`): it keeps
to the protocol, and may connect again, close its stream or be
unplugged whenever it likes. Abstracted: checksums, the banner, the contents of a
packet (its number in its stream), and a packet written to a service in parts
(sockets.c:147-161 and 269-275): it is one unit, which fits or waits.

## 3. Runs

| Run | Expectation | What it shows |
|---|---|---|
| `boot_restart` | pass | the safety properties of the restart protocol, its inductive invariant, and that every command is retired when power losses end and nobody keeps recovery waiting; six commands, MTD device, any number of power losses |
| `boot_faults` | pass | the header of a firmware image is written last even if BCB accesses fail and tear; with /datadata |
| `boot_torn` | violation | a torn BCB rewrite during a restart loses the command (finding) |
| `patch_partition` | violation | a partition patched in place can be lost by two interruptions (finding) |
| `patch_bare` | violation | a script whose calls are not asserted goes on after a failure and overwrites the only copy of a source (finding) |
| `patch_check` | violation | a script that checks a file can never complete after a power loss between unlink and rename (finding) |
| `patch_result` | pass | a sum of six: patching files in place and elsewhere, a partition made from another and a file made from one, with asserted and bare calls (`Recoverable` and its inductive invariant, the restarted script completes, success means that every asserted item is patched); installation (`RunInv`: success means the script ran to its end and every command was obeyed, the property area is back in its place unless moving it back failed, the bar stays inside its frame; nothing is done after an abort, what was checked can be patched, the bar never goes back, the installation ends); the hash table (a search halts and finds exactly what is held); packages (entries are found, the table never has to grow, an extraction that met no failure wrote exactly the entries below its directory); bsdiff and imgdiff (what is applied and accepted is the new file exactly, and imgpatch refuses what imgdiff made for two named reasons only) |
| `zip_extract` | violation | an extraction that failed returns true (finding) |
| `threads` | pass | a sum of two: the client of vold (list and count agree with vold while the connection lasts; `vold_unmount_all` does not shut the event thread out and leaves nothing mounted if nothing disturbed it; a command that is waited for returns; crashes included); menus and sideload (no cancellation, thread or package is left behind, a sideload that is over for host or user returns, and no held key is returned after its release) |
| `vold_result` | violation | the result of an automount is returned for another command (finding) |
| `storage` | pass | a sum of four: backups (a restore that succeeds and asked nothing is exact where it looked for a whole image, one that succeeds leaves nothing erased that has an image); the deduplicating store (finished backups with a whole manifest stay restorable); raw flash (implements `ByteStream`, reads back the image); volumes (no file system is made under a mount the scan sees, the media survive, a reported format that makes a volume anew has emptied it) |
| `adb` | pass | nothing freed is called, a transport is freed after its threads and has the device to itself, packets arrive once, in order and acknowledged once, a waiting host is answered, a replugged device gets back on line unless the daemon has exited, after a complete sideload or for want of a file |

Deadlock is not checked where a behaviour ends: a script, a patch and an
extraction are over, a restore was the last the bound allows, the last host has
sent its last packet.

### Findings

The six violations, with the lines they contradict, are `findings` in
`PROJECT.json`: `boot_torn` (recovery.c:237, bootloader.c:124), `patch_partition`
(applypatch.c:845), `patch_bare` (updater/install.c:1180, against applypatch.c:675-678),
`patch_check` (applypatch.c:583, against 596-600), `vold_result` (event_loop.c:269), `zip_extract` (Zip.c:1139).

### Observations without a run

Modelling the code also showed the following. The modules contain what is said
here of a modelled part, but no run asks for it.

Restart, installation and scripts:
* a failed commanded install does not wait for the user, it reboots
  (recovery.c:1167, against the comment at recovery.c:120);
* a headless command waits in `headless_wait`, which calls `finish_recovery(NULL)`
  (recovery.c:779), so its `--send_intent` is never written;
* `wipe_cache` is written by the updater and unknown to `try_update_binary`;
  lines of more than 1023 bytes are read as several commands;
* the comment of write_raw_image says "filename_or_blob", but a blob is used as a
  file name (updater/install.c:1039 against 1063); `apply_patch` and
  `apply_patch_check` follow the null pointer of an aborted argument;
* an error in the arguments of `delete` ends in a loop that counts the wrong
  variable (updater/install.c:336) and frees what lies behind the array; `set_metadata` on a missing file calls
  `ErrorAbort` (885) and yet returns a string (905-913); `set_perm_recursive` and
  `unmount` ignore failures; `format` of an unknown type gives NULL without a
  message.

Patching:
* in the low-space path a source that is not the target is deleted
  (applypatch.c:891, against 689-690), and a file made from a partition fails for
  ever when space stays low;
* `ReadImage` of imgdiff.c does not end for an image whose last bytes are the start
  of a gzip header, nor for a damaged member (406 against 506-513, 452-461);
  `ApplyImagePatch` ignores the result of `ApplyBSDiffPatch` for normal chunks, which
  only the hash of the whole shows;
* imgdiff makes patches that imgpatch refuses: in zip mode with a bonus file
  (imgdiff.c:785-814), and for a target zip with two entries of one name, of which the
  later equals the source's (913-917: the source chunk becomes normal, and the earlier
  is patched against it as deflated). `NeverAwry` excepts these two.

Volumes, backups and flash:
* a disk inserted during the unmounts before a reboot is automounted
  (dispatcher.c:189); `CleanReboot` therefore excepts runs in which an automount
  or a failed command (`disturbed`) came in between;
* a thread that waits for a command is not woken when vold dies
  (event_loop.c:266 and 191); `ConnectedCommandReturns` is about commands whose
  connection lasts;
* `format_unknown_device` returns 0 when the mount fails or /sd-ext has no device
  ("Skipping format..."), and whatever becomes of its `rm -rf` (extendedcommands.c:773,
  791, 793);
  formatting an eMMC raw partition returns 0 and erases nothing. `FormatEmpties`
  speaks of formats that make a file system only;
* a restore erases a raw partition before it looks for its image
  (nandroid.c:803-814), and passes with 0 over an image of a file system that is not
  one of the seven it looks for (670, 719-721). An image is named `<name>.auto` only
  for a mounted volume without the name of a file system (356): when none is mounted
  no handler is found and the backup fails;
* a manifest is written without a look at the result (dedupe.c:102, 165, 218, 235,
  385, 396): a full disk gives a cut one with a correct checksum;
* the question of the md5 check says that restoring missing files "will fail"
  (nandroid_md5.c:302-303); the restore passes over them and returns 0
  (nandroid.c:720). Files beyond `MAX_FILES_CHECKED` are neither checked nor
  reported; `SilentRestoreIsExact` excepts them;
* a collection that meets a manifest of a later version stops reading manifests
  and then deletes the blobs of those it has not read; `Restorable` excepts it
  (`brokeOff`). `copy_file` tries for ever after a read error;
* the raw restore of mtdutils.c returns 0 when its last flush fails (629-636), the
  backup takes a read error for the end (692), and a block given up is not marked
  bad (463); `BackupReadsImage` excepts these with `flushed` and `fails`.

User interface and adb:
* the second of two quick presses of a key counts for nothing (ui.c:985-986);
  with recovery's own key repetition a key that arrives as the wait times out is
  answered with a timeout (ui.c:955);
* a volume change between the two reads of `v_changed` is cleared unseen
  (recovery.c:912);
* without a child (fork failed) `kill` is called with -1 (adb_install.c:109, 130);
* a cancellation posted before the sideload's menu starts is cleared with the
  queue (adb_install.c:124, recovery.c:546 and 566); "Cancel sideload" installs
  what has been received (adb_install.c:146);
* `fdevent_set` on a pending descriptor clears the events that are wanted; the
  next turn of the loop reports them again, which is why `NoStall` holds.

### Further hazards

`hazards` in `PROJECT.json` lists the most important ones. Also seen: rename and
unlink are not synced (applypatch.c:1013); a vold message cut by a read
(event_loop.c:145); `ui_cancel_wait_key` does not look at the bound of the key
queue (ui.c:871); a package removed while it is installed (install.c:216); a truncated
patch stream keeps bspatch in its read loop, which is below the blocks of `BsDiff`.

### Bounds

RecoveryBoot needs no bounds: its state is finite for a finite set of commands,
and the number of commands, crashes and user actions in a behaviour is
unlimited. `MCRequests` has every command, alone or in the combinations whose
options interact (update with wipe, intent with update and with wipe, headless with an
intent); the fault runs use two commands, one with and one without a firmware image
behind it. ApplyPatch is finite too; the passing script holds each kind of item but a
partition in place (file in place, file to a new name, partition from partition, file
from partition), three items that compete for the one cached copy, a check of a
partition, and bare calls where a failure does no harm: of the item that uses no copy
and of the last. The three violations need two items each.

UpdaterRun: every sequence of three statements out of 37, which cover the
functions with an effect and the nestings in which an abort can be swallowed; three,
so that one can undo what the first checked before the third relies on it. A pipe
of one command blocks the writer as early as possible. HashTable: five items with
hash values that collide and wrap, tables of up to 8 slots, any number of
operations. ZipArchive: packages of up to three out of eight entries (a file, its
name with a suffix, a directory and what is below it, links, a damaged and a bad
entry), so that sorting, duplicates and the end of a range all happen; one failing
system call. BsDiff: every old string of up to 4 and new one of up to 5 bits
(with `Slack` 1 instead of 8, which lets matches compete at these lengths).
ImgDiff: every pair of a source image of up to two segments and a target of up to
three, pairs of images with a damaged member, a wrong footer or the start of a header
at the end, every pair of zip files of one or two entries, equal and changed, target
and source zips with two entries of one name, and zips that are refused; all with a
bonus file or none.

VoldClient: two volumes, so that a listing, a sweep of unmounts and an automount
can be under way on different volumes; `MaxEvents` bounds insertions and
removals (one insertion is enough for an automount that meets a listing, a sweep
or a wait); calls of the main thread and crashes of vold are unlimited.
MenuInput: one key that repeats and one that does not; `MaxPresses` bounds key
events (two, so that one press can be queued behind another). `QueueMax` exceeds
the number of entries in the Sideload run, because `ui_cancel_wait_key` does not
look at the bound; the number of sideloads is unlimited.

Nandroid: a raw partition, an archived one that is emptied by `rm -rf`, and an
optional one restored with it whose file system is not looked for; one fault, two restores (a failed one and one after it), and a `MaxChecked` that
is exceeded when all pieces are there. Dedupe: two contents and three backups, one of a later
version; stores, collections and power losses are unlimited. The two earlier
backups and the contents are interchangeable in the module, so symmetry is sound.
MtdFlash: five blocks of two bytes, images of none, part of, exactly two and two
and a half blocks, pieces smaller than, unaligned with and larger than a block, two
bad blocks and two that fail. Volumes: /data as ext4 with the media inside it, a card
of vold's with a directory on it, and an eMMC partition (the other kinds take the same
paths through the module and are covered by the proofs), with a scan that sees
one line, so that a mount can be overlooked.

Adb: two sessions, so that an old one ends while a new one begins; two streams of
two packets, a buffer of one so that packets queue, two connects, five packets in
all.

### Fairness

`RecoveryBoot!FairSpec`: the recovery program, where it does not wait for a person or
the host (`Waits`), and the bootloader keep running (one sequential program each), and
power losses end at some point; nothing is assumed of the user, the host or the main
system, and `CommandRetired` is about behaviours in which recovery is not kept waiting
for ever. `ApplyPatch!FairSpec` (and its copy in `ToolsSpec`): the script is started again until it succeeds, which the BCB brings about after a power loss
and the main system or the user after a reported error, and failures end.
`UpdaterRun!RunFairness`: the installer and the updater are processes that run
when they can; a program the script leaves running ends some day (while it holds
the pipe open the installer does wait).
`MCThreads!VoldFairness`: vold, the main thread and the event thread each run when
they can, and vold is up from some time on; nobody has to call anything or insert
a disk. `Sideload!SideloadFairness`: the main thread runs, a child that was sent
SIGTERM ends; the waiting thread is strongly fair because the mutex it
needs is free for seconds each time the main thread waits for a key. Neither the
host nor the user has to do anything. `Adb!AdbFairness`: the opener, the event
loop, the two threads of a transport and the service thread run when they can, until
the daemon exits; nothing is assumed of the host.

## 4. Proofs

Eight modules of theorems, for every value of the constants; `theorems` in
`PROJECT.json` lists the results. Each module states its inductive invariant,
has one lemma per part of it with one step per action, and ends with the theorems.
A `...Steps` module holds lemmas for the module that extends it. A leaf is for Zenon
unless it names SMT, which the leaves about arithmetic, functions and records do.

`RecoveryBootProofs` has two parts. The first proves, for every set of commands and
every device, `TypeCorrect`, and `HeaderIsLast` with BCB faults and tears included. Under
`BcbWorks` (BCB accesses neither fail nor tear; `boot_torn` shows that it is
needed) it proves the inductive invariant `IInv` itself (`RestartInvariant`) and
from it `MainSystemIsWhole`, `WorkIsRestartable`, `FlashedImageIsWhole`,
`IntentIsDelivered` and the action property `RetirementIsFinal`. `IInv` says that
every half-written partition is excused or is in `Pending`, the partitions that the
rest of this boot or the next boot writes again (`HalfInv`). That is preserved
because of what the BCB holds at each program point (`BcbInv`), because the task
at hand is one of its arguments (`TaskInv`), and because of what the history
variable `job` can be (`JobInv`). `RetireInv` says at which points a cleared BCB may
be written again, `IntentInv` where the intent of a command that is not yet
delivered is: in the command file, then in the BCB and in `args`. The proof of
`IntentIsDelivered` first failed: with `--headless` the program does not come to the
`finish_recovery(send_intent)` at the end of `main()`, so a headless command delivers
no intent. `IntentDelivered` now excepts it, and `MCRequests` has such a command.

Its second part, on the hash table of minzip, proves `HashTableHolds`: `TabInv` for any
items, hash values and bound on the size, from `HashAssumption` (hash values are naturals; the bound admits the
first table). `TabInd` says of the slots that each item is in one of them, and that no
slot from its hash value up to there is empty (`Holds`, `Reaches`): a probe then cannot
stop too early, a tombstone does not stop it, and the load factor leaves an empty slot
for it to stop at (`Room`, by counting). Two facts need induction, that a probe comes
by every slot and that `resizeHash` has moved the items of the first n slots; it is
done by taking the least number for which they fail (`Least`).

`FlashProofs` has two parts. The first proves, for every script, `TypeCorrect` and
`SuccessIsReal`: a script that reports success has patched every item whose call it
asserts, partitions in place included (`ScriptInv`: how far the script has come; of a
bare call nothing can be said). Two hypotheses are on the script: it patches no
partition in place (`NoPartitionInPlace`), and it asserts every call that may use the
copy but the last (`CopyAsserted`); `patch_partition` and `patch_bare` show that each
is needed. From them it proves the invariant `IInv` (`PatchInvariant`) and
`PatchingIsRecoverable`, whatever is checked beforehand. `Recoverable` is not
inductive because one copy serves all items. `CopyInUse` adds that an item that
depends on the copy comes after items that are patched or do not use the copy, so that
the restarted script reaches it before any other item wants the copy.

Its second part proves, for every size and number of blocks, image, size of the
pieces, set of bad blocks and number of failures (`FlashAssumption`), that the block
writer implements `ByteStream` (`StreamIsWritten`) and that a backup begins with the
restored image (`BackupIsImage`). The history variable `where` records the place of
every byte written, so that the stream is a function on positions and no induction
over blocks is needed. `Pieced` says that flash, buffer, piece and the rest of the
file make up the image; `Places`, that every block behind the file position was
passed over or holds one whole run of the places, in the order of the blocks;
`Reader`, that what was read are the places in front of the reader. Sealing is the
step at which the image is complete and its last block padded.

`VoldClientSteps` and `VoldClientProofs` prove the voldclient, for any finite set of
volumes and any bound on events, with or without crashes of vold
(`VoldAssumption`): `VoldInvariant` (`VoldInv`), `ListStaysInStep` (`ListInStep`),
`EventThreadNotShutOut` (`WriterNeverShutOut`) and the action property `RebootIsClean`
(`CleanReboot`). `VoldInv` is inductive. The count `cmd_inflight` is right because
each command is in exactly one place: on its way to vold, executed, answered on the
socket or answered in the hand of the event thread (`CountInv`). The listing of
`vold_init` is followed from the empty list to the full one, with the entries behind
the command and in front of the result (`ListingInv`; `Filling` while it is under
way); from then on no listing comes, so the event thread never needs the write lock
under `vold_unmount_all`. `ListAgrees` needs in addition that the news of a command
is in front of its result (`NewsInv`). `UnmountInv` says for each volume still mounted
or shared that the sweep has a step for it left or in flight (`StepsInv`: in which
order). The first module has the steps, with the laws of counting results in a queue
as a hypothesis (`CountLaws`); the second proves these laws and the theorems.

`StorageProofs` has three parts. The first proves, for every volume table, limit of the scan of the mount table
and order of mounts and failures, from `VolumesAssumption` (the media lie inside
`/data`, which is no volume of type `auto`; only media and directories lie inside
another volume), `MediaSurvives` (`MediaKept`) and `FormatsAreSound` (`VolInv`). For the
first, one lemma per function says which paths it leaves alone: mounting and
unmounting leave all content, making a file system leaves what is outside the
volume, and emptying `/data` leaves all but `/data` itself. For the second, one lemma
per function says that it keeps the mount table free of repetitions and makes a
file system only on a volume that the table does not show: taking the one line of a
volume out of the table leaves it unmounted, which needs that no volume is in the
table twice. That a format has emptied its volume is proved for the items that make
the file system anew (`MakesAnew`): what `rm -rf` removes is not looked at by the code.

Its second part proves two theorems about backups. `RestoreIsExact`: `NandroidInv` for any partitions,
orders of backup and restore, archive formats and bounds, from `NandroidAssumption`.
It is about images the restore looks for (`Sought`) that were whole when summed; on a
volume in `Swept` the files of the backup are there, older ones may be among them.
What a restore has written is right only because of what the checksums said before it
began, so the invariant ties the steps together: while a backup is made only the
image at hand is unfinished, so that no line of nandroid.md5 is that of a bad file
(`BackupInv`); what a check passed in silence, of a selection within the limit of
checked files, is sound (`CheckInv`); and each partition is still to be visited or
is as it should be (`VisitInv`). `BackupsStayRestorable`: `DedupeInv` (finished backups whose manifest is whole) for
any numbers of backups and contents, from no assumption. A collection removes blobs long
after it has read the manifests, and a power loss takes what was renamed since
the last sync; so the invariant also says that a removed backup has no lines and
the one being stored is open (`ManInv`), that what is being copied has no good
blob (`CopyInv`), that the blobs of unfinished backups are good and those of
finished ones durable (`BlobInv`), and that a collection holds nothing in hand
that a manifest names (`GcInv`).

Its third part proves `SideloadLeavesNothing`, `SideloadInv` for every set of keys, queue
bound and number of presses, from `MenuAssumption`. The steps of
`MenuInput` are shown to bring no cancellation into the queue, and `ThreadInv`
adds what is known of the child and the waiting thread at each point: a child is
reaped before the cancellation is posted, and the main thread passes the join only
when the waiting thread is done. It also proves the action property `HeldKeysStop`
(`NoPhantomKey`): the invariant `OwedInv` counts the places of a key in the queue
against the presses that are owed an answer.

`AdbProofs` proves `AdbSocketsSafe`: `SocketInv` for any number of sessions, sockets,
packets and connects and any size of a socket pair, from `AdbAssumption`, whenever the
daemon exits (`DaemonSpec`). The invariant
`LoopInv` says how far a transport has come (`LifeInv`: its references are the threads
that have not left, and only a transport whose output thread has left is kicked,
which is why a late kick never closes the device of the next session); that the
registration socket names each transport once (`RegInv`); that SYNC(0, 0) is the last
packet of the output thread, and that once it is on its way to the input thread the
transport is offline with nothing left to read (`StopInv`), so that
`close_all_sockets`, which runs outside the event loop, finds no socket; and that a
socket waits to write only while it has something to write (`SoundInv`). One lemma
for each operator of sockets.c says what it leaves of a socket (`Fades`).

`AdbStreamSteps` and `AdbStreamProofs` prove `AdbStreamsKept`: `StreamInv`, from the same
assumption. Neither
order nor the count of acknowledgements is inductive: both hold because the host sends
a packet only when the one before was acknowledged, and the acknowledgement crosses two
threads and a cable that may be another one by then. The invariant `StreamIInv` follows
the right to send the next packet: it is with the host, in a WRTE on its way, in the
queue of the socket or in an OKAY on its way, and in one of these places only
(`OneTurn`); `Numbered` ties the number in the WRTE and the host's count to what the
socket has taken. For that, a socket and the host's end of its stream must name each
other wherever both appear (`SockIds`, `HostIds`, `Joined`, `OpenInv`, `HostInv`,
`UpInv`, `DownInv`), also when the input thread of an old session writes to the cable
of a new one. That rests on the host numbering its streams through all sessions. The
first module has the steps of the event loop, the second those of the hosts and the
theorem.

Only model-checked:
* liveness (`CommandRetired`, `ScriptCompletes`, `InstallEnds`,
  `ConnectedCommandReturns`, `SideloadReturns`, `NoStall`, `Reconnects`): the prover has no fairness;
* the loops of `BsDiff`, `ImgDiff` and `ZipArchive` (`DiffInv`, `ImgInv`, `ZipInv`):
  what they compute is defined by recursion over sequences, for which the prover has
  no induction;
* `Edify` and `UpdaterRun` (`RunInv`, `NothingAfterAbort`, `CheckedIsPatchable`,
  `BarForward`): the evaluator is recursive.

## 5. Not modelled

Left out, with the reason; `components` in `PROJECT.json` gives the files.

* Drawing, fonts, touch gestures, the animation and the text log: output, or a
  conversion of touches to the keys of `MenuInput`.
* Package verification: one sequential function over the bytes of a file; without
  RSA and SHA-1 only the search for a footer remains.
* bzip2, inflation and memory mapping: libraries and their wrappers.
* BML over MTD: a second tool with the loops of `MtdFlash` over a reservoir of
  spare blocks, for one family of boards. MMC and BML partitions: sequential
  copies; their results are taken as given in `Volumes` and `Nandroid`.
* The adb backup (bu, `nandroid_dump`, `nandroid_undump`): one sequential stream.
* The scripts recovery runs itself (edifyscripting.c): the evaluator is `Edify`,
  their functions call parts that have modules.
* File choosers, menu tables and texts of the extended commands, and
  partitioning of a card. The items that change state are actions of `Volumes`,
  `Nandroid` and `VoldClient`.
* The parsers of the script language: generated code.
* Binary retouching and the loki patch: arithmetic on the bytes of libraries and
  boot images. Wrappers of fork, exec and wait; reboot and su.
* A failing `pipe()` or `pthread_create`, whose results the code does not look at; the
  `firmware` command of an updater, which this one never writes; the key combination
  that reboots at once.
* The partition table and the hole finder of the MTD tools; the property table
  inside the legacy property area, which is filled once.
