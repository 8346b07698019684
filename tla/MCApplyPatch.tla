---------------------------- MODULE MCApplyPatch ----------------------------
(* Scripts for TLC: a file patched in place, a file patched to a new name, *)
(* a partition made from another one, a file made from a partition, and a  *)
(* partition in place.                                                     *)
EXTENDS ApplyPatch

MCItems      == {"app", "lib", "lib2", "boot", "fota", "dump"}
MCLocations  == {"/system/app", "/system/lib", "/system/lib.new",
                 "/system/lib2", "/system/misc", "MTD:boot", "MTD:recovery",
                 "MTD:fota", "MTD:misc"}
MCPartitions == {"MTD:boot", "MTD:recovery", "MTD:fota", "MTD:misc"}
MCSrc == [i \in MCItems |->
            CASE i = "app"  -> "/system/app"
              [] i = "lib"  -> "/system/lib"
              [] i = "lib2" -> "/system/lib2"
              [] i = "boot" -> "MTD:boot"
              [] i = "fota" -> "MTD:fota"
              [] i = "dump" -> "MTD:misc"]
MCTgt == [i \in MCItems |->
            CASE i = "app"  -> "/system/app"
              [] i = "lib"  -> "/system/lib.new"
              [] i = "lib2" -> "/system/lib2"
              [] i = "boot" -> "MTD:recovery"
              [] i = "fota" -> "MTD:fota"
              [] i = "dump" -> "/system/misc"]

\* Scripts; in NoFota the calls of dump and of the last item may be bare.
NoFota   == <<"app", "lib", "dump", "boot", "lib2">>
WithFota == <<"app", "fota">>
TwoFiles == <<"app", "lib2">>
=============================================================================
