--------------------------- MODULE MCRecoveryBoot ---------------------------
(* Commands for TLC: each command of recovery.c:86-91, with the options    *)
(* that interact with it.                                                  *)
EXTENDS RecoveryBoot

MCRequests == {
  {"wipe_cache"}, {"sideload"}, {"wipe_cache", "headless", "send_intent"},
  {"update_package", "send_intent"}, {"wipe_data", "send_intent"},
  {"update_package", "wipe_data"} }

FewRequests == { {"update_package", "send_intent"}, {"wipe_data"} }
=============================================================================
