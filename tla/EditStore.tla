----------------------------- MODULE EditStore -----------------------------
(***************************************************************************)
(* What the vault keeps for its users, whichever of them edits it from     *)
(* which browser: nothing stored is lost, and an edit that its user takes  *)
(* as saved is stored, with one exception.  A locked vault refuses edits,  *)
(* and users cannot tell its refusal from a success.  Storing, refusing    *)
(* and acknowledging are separate: an edit may be stored, or refused,      *)
(* without its user ever hearing so.                                       *)
(***************************************************************************)
CONSTANTS Edits,     \* what users may do to the vault
          Initial    \* what the vault held at first

VARIABLES stored,        \* the edits in the vault
          refused,       \* edits that met a locked vault
          acknowledged   \* the edits whose users believe that they are stored

storeVars == <<stored, refused, acknowledged>>

StoreInit == stored = Initial /\ refused = {} /\ acknowledged = {}

\* One save may bring several edits: those an earlier save of the same popup failed to.
StoreEdits ==
    /\ stored' \in {stored \cup S : S \in SUBSET Edits}
    /\ UNCHANGED <<refused, acknowledged>>

\* A refusal that nobody heard of may be forgotten; one that misled a user is not.
Refuse ==
    /\ refused' \in {R \in SUBSET Edits : refused \cap acknowledged \subseteq R}
    /\ UNCHANGED <<stored, acknowledged>>

Acknowledge(d) ==
    /\ d \in stored \cup refused
    /\ acknowledged' = acknowledged \cup {d}
    /\ UNCHANGED <<stored, refused>>

StoreNext == StoreEdits \/ Refuse \/ \E d \in Edits : Acknowledge(d)

StoreSpec == StoreInit /\ [][StoreNext]_storeVars
=============================================================================
