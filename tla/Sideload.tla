------------------------------ MODULE Sideload ------------------------------
(***************************************************************************)
(* apply_from_adb() (adb_install.c) on top of the menus of MenuInput: the  *)
(* main thread forks a child that receives a package over USB, a second    *)
(* thread waits for the child and cancels the menu, and the main thread    *)
(* installs what it finds once both are gone.                              *)
(***************************************************************************)
EXTENDS MenuInput

VARIABLES
  apc,        \* main thread: "idle", "forked", "menu", "kill", "join",
              \* "clear" or "stat" in apply_from_adb
  child,      \* "none", "running", "killed" (SIGTERM under way), "exited"
              \* or "reaped"
  waiter,     \* sideload_thread: "none", "waiting", "posting" or "done"
  file        \* ADB_SIDELOAD_FILENAME: "none", "partial" or "whole"

loadVars == <<apc, child, waiter, file>>
allVars  == <<inputVars, loadVars>>

SideloadTypeOK ==
  /\ InputTypeOK
  /\ apc \in {"idle", "forked", "menu", "kill", "join", "clear", "stat"}
  /\ child \in {"none", "running", "killed", "exited", "reaped"}
  /\ waiter \in {"none", "waiting", "posting", "done"}
  /\ file \in {"none", "partial", "whole"}
  /\ apc = "idle" => waiter \in {"none", "done"}

SideloadInit ==
  /\ InputInit
  /\ apc = "idle" /\ child = "none" /\ waiter = "none"
  /\ file = "none"

-----------------------------------------------------------------------------
(* The main thread.                                                        *)

(* When fork() fails there is no child to wait for, and waitpid(-1) gives  *)
(* up at once, as it does for one that has exited.                         *)
StartSideload ==
  /\ apc = "idle" /\ pc = "out"
  /\ apc' = "forked"
  /\ child' \in {"running", "exited"}
  /\ waiter' = "waiting"
  /\ UNCHANGED <<inputVars, file>>

OpenMenu ==
  /\ apc = "forked"
  /\ MenuStarts
  /\ apc' = "menu"
  /\ UNCHANGED <<child, waiter, file>>

(* However the menu ends, the sideload ends.                               *)
LeaveMenu ==
  /\ apc = "menu"
  /\ MenuChooses \/ MenuLeaves
  /\ apc' = "kill"
  /\ UNCHANGED <<child, waiter, file>>

(* Mutant: the child is left alone.                                        *)
NoKill ==
  /\ apc = "kill"
  /\ apc' = "join"
  /\ UNCHANGED <<inputVars, child, waiter, file>>

KillChild ==
  /\ apc = "kill"
  /\ child' = IF child = "running" THEN "killed" ELSE child
  /\ apc' = "join"
  /\ UNCHANGED <<inputVars, waiter, file>>

JoinThread ==
  /\ apc = "join" /\ waiter = "done"
  /\ apc' = "clear"
  /\ UNCHANGED <<inputVars, child, waiter, file>>

(* Mutant: the queue is left as it is after the join.                      *)
NoClear ==
  /\ apc = "clear"
  /\ apc' = "stat"
  /\ UNCHANGED <<inputVars, child, waiter, file>>

ClearAfterJoin ==
  /\ apc = "clear"
  /\ ClearKeyQueue
  /\ apc' = "stat"
  /\ UNCHANGED <<menuVars, changed, child, waiter, file>>

(* Without a file "No package received"; otherwise it is installed, whole  *)
(* or not, and removed.                                                    *)
InstallSideloaded ==
  /\ apc = "stat"
  /\ file' = "none"
  /\ apc' = "idle"
  /\ UNCHANGED <<inputVars, child, waiter>>

-----------------------------------------------------------------------------
(* sideload_thread.                                                        *)

ReapChild ==
  /\ waiter = "waiting" /\ child = "exited"
  /\ child' = "reaped"
  /\ waiter' = "posting"
  /\ UNCHANGED <<inputVars, apc, file>>

PostCancel ==
  /\ waiter = "posting"
  /\ CancelWaitKey
  /\ waiter' = "done"
  /\ UNCHANGED <<apc, child, file>>

-----------------------------------------------------------------------------
(* The child: sideload_service() of minadbd.                               *)

Alive == child \in {"running", "killed"}

(* The file is created anew for every attempt of the host.                 *)
ReceiveStarts ==
  /\ Alive
  /\ file' = "partial"
  /\ UNCHANGED <<inputVars, apc, child, waiter>>

ReceiveEnds ==
  /\ Alive /\ file = "partial"
  /\ file' = "whole"
  /\ UNCHANGED <<inputVars, apc, child, waiter>>

(* The child exits after a whole package, when it cannot create the file,  *)
(* because it could not be executed, or by the signal.                     *)
ChildExits ==
  /\ Alive
  /\ child' = "exited"
  /\ UNCHANGED <<inputVars, apc, waiter, file>>

-----------------------------------------------------------------------------
Child  == ReceiveStarts \/ ReceiveEnds \/ ChildExits
Waiter == ReapChild \/ PostCancel
SideloadMain ==
  \/ OpenMenu \/ LeaveMenu \/ KillChild \/ JoinThread \/ ClearAfterJoin
  \/ InstallSideloaded

InMenu        == (WaitKey \/ MenuGoesOn) /\ UNCHANGED loadVars
OrdinaryMenu  == apc = "idle" /\ (MenuStarts \/ MenuChooses \/ MenuLeaves)
                   /\ UNCHANGED loadVars
Elsewhere     == (Input \/ VolumeHotswap) /\ UNCHANGED loadVars

SideloadNext ==
  \/ StartSideload \/ SideloadMain \/ Waiter \/ Child
  \/ InMenu \/ OrdinaryMenu \/ Elsewhere

SideloadSpec == SideloadInit /\ [][SideloadNext]_allVars

(* Main thread and waiter run on, and a child that was sent SIGTERM ends;  *)
(* the host may be slow for ever, and the user need not press a key.  The  *)
(* waiter gets the mutex at last, since the main thread gives it up for    *)
(* seconds each time it waits: strong fairness.                            *)
SideloadFairness ==
  /\ WF_allVars(SideloadMain \/ InMenu) /\ SF_allVars(Waiter)
  /\ WF_allVars(child = "killed" /\ ChildExits)

-----------------------------------------------------------------------------
(* Properties.                                                             *)

(* After a sideload no cancellation is left behind, or still to come, that *)
(* would dismiss a later menu: the thread is joined before the queue is    *)
(* cleared (adb_install.c:131-132).                                        *)
NoStaleCancel == apc \in {"stat", "idle"} => Cancel \notin Range(queue)

(* A sideload that is over for the host or for the user returns.  A        *)
(* cancellation in the queue ends the menu, also behind held keys that are *)
(* put back into the queue again and again (ui.c:976-999); once the menu   *)
(* is left, the wait for the waiter and the waiter's wait for the child    *)
(* end (adb_install.c:129-131).                                            *)
SideloadReturns ==
  (apc = "menu" /\ Cancel \in Range(queue)) \/ apc = "kill" ~> apc = "idle"

(* A sideload finds no package of an earlier one: the child, which may go  *)
(* on writing until the signal reaches it, is gone before the file is      *)
(* looked for, installed and removed (adb_install.c:129-168).              *)
NoStalePackage == apc = "idle" => file = "none"

(* One sideload leaves nothing behind for the next: neither the cancel key *)
(* the waiter thread posts nor the package of the child.                   *)
SideloadInv == SideloadTypeOK /\ NoStaleCancel /\ NoStalePackage

=============================================================================
