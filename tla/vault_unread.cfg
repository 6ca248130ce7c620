\* A restored account, and a vault row that cannot be read once.
SPECIFICATION Spec
CONSTANTS
    Exts = {x}
    Edits = {d1}
    Initial = {i1}
    MaxUnlocking = 1
    Mishaps = {"unread"}
    None = None
INVARIANTS CommittedEditsSurvive
