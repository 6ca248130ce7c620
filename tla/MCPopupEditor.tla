--------------------------- MODULE MCPopupEditor ---------------------------
(***************************************************************************)
(* PopupEditor with one one-time code, for TLC.  Half of the behaviours    *)
(* begin with a closed popup.  The others begin once it has loaded the     *)
(* vault, which leaves more requests to what the user does next; to make   *)
(* up for it they keep the popup open and add and delete one-time codes    *)
(* only.                                                                   *)
(***************************************************************************)
EXTENDS PopupEditor

VARIABLE late

OneCode == {[kind |-> "totps", id |-> 10, text |-> 0]}

HasLoaded ==
    /\ log = <<Initial>> /\ cache = Latest
    /\ view = "unlocked"
    /\ vault = Initial /\ version = 1
    /\ rows = Initial /\ ticking = IdsOf(OfKind("totps", Initial)) /\ form = NoForm
    /\ calls = <<>>
    /\ deleted = {} /\ overtaken = {}

EditorInit == late \in BOOLEAN /\ IF late THEN HasLoaded ELSE Init

Few == late => view' # "closed" /\ form' \in {NoForm, [kind |-> "totps", id |-> 0]}

EditorSpec == EditorInit /\ [][Next /\ Few /\ UNCHANGED late]_<<vars, late>>
=============================================================================
