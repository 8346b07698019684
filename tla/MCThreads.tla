------------------------------ MODULE MCThreads ------------------------------
(***************************************************************************)
(* Instances for TLC of the parts of recovery that have threads of their   *)
(* own: the client of vold with its event thread, on the volumes of        *)
(* MCVoldClient, and the menus with the input thread and a sideload.  They *)
(* share no state here: which says the one that runs.                      *)
(***************************************************************************)
EXTENDS MCVoldClient, Sideload

CONSTANTS volup, power

VARIABLE which

\* The part that does not run holds still.
VoldIdle == up = TRUE /\ vstate = [v \in Volumes |-> Idle] /\ Init

ThreadsInit ==
  /\ SideloadInit
  /\ \/ which = "vold" /\ Init
     \/ which = "sideload" /\ VoldIdle

ThreadsNext ==
  /\ which' = which
  /\ \/ which = "vold" /\ Next /\ UNCHANGED allVars
     \/ which = "sideload" /\ SideloadNext /\ UNCHANGED vars

(***************************************************************************)
(* vold and its two clients run when they can.  Nobody has to call         *)
(* anything, disks need not come and go, and vold crashes finitely often.  *)
(***************************************************************************)
VoldFairness ==
  /\ WF_vars(which = "vold" /\ Vold) /\ WF_vars(which = "vold" /\ Main)
  /\ WF_vars(which = "vold" /\ Event) /\ <>[]up

ThreadsSpec ==
  /\ ThreadsInit /\ [][ThreadsNext]_<<which, vars, allVars>>
  /\ VoldFairness /\ SideloadFairness
=============================================================================
