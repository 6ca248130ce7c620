--------------------------- MODULE MCUnlockWorker ---------------------------
(***************************************************************************)
(* UnlockWorker with few attempts, for TLC: the values of its constants    *)
(* are in the configurations.                                              *)
(***************************************************************************)
EXTENDS UnlockWorker
=============================================================================
