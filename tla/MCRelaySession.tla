--------------------------- MODULE MCRelaySession ---------------------------
(***************************************************************************)
(* RelaySession with few requests of each kind, for TLC.                   *)
(***************************************************************************)
EXTENDS RelaySession, TLC

\* Calls of one kind are interchangeable: used by the runs without liveness.
Symmetry == Permutations(Responds) \cup Permutations(Retrieves) \cup Permutations(Sockets)
=============================================================================
