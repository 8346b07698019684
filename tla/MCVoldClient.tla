---------------------------- MODULE MCVoldClient ----------------------------
(***************************************************************************)
(* Instances of VoldClient for TLC: one or two volumes, a few insertions   *)
(* and removals, with and without crashes of vold.                         *)
(***************************************************************************)
EXTENDS VoldClient

CONSTANTS sd0, sd1

=============================================================================
