------------------------------- MODULE MCAdb --------------------------------
(***************************************************************************)
(* The adb daemon for TLC.                                                 *)
(***************************************************************************)
EXTENDS Adb

Spec == DaemonSpec /\ AdbFairness

=============================================================================
