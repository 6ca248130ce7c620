---------------------------- MODULE MCVaultSync ----------------------------
(***************************************************************************)
(* VaultSync with two extensions and a few edits, for TLC.                 *)
(***************************************************************************)
EXTENDS VaultSync, TLC

Symmetry == Permutations(Exts) \cup Permutations(Edits)
=============================================================================
