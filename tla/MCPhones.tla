------------------------------ MODULE MCPhones ------------------------------
(***************************************************************************)
(* Phones with a few phones and accounts, for TLC.                         *)
(***************************************************************************)
EXTENDS Phones, TLC

Symmetry == Permutations(Phones) \cup Permutations(Accounts)
=============================================================================
