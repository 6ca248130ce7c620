\* Two browsers edit one vault; the worker may be stopped, requests fail or come late.
SPECIFICATION Spec
CONSTANTS
    Exts = {x, y}
    Edits = {d1, d2}
    Initial = {}
    MaxUnlocking = 1
    Mishaps = {"unread", "stop"}
    None = None
SYMMETRY Symmetry
INVARIANTS CommittedEditsSurvive CacheIsCommitted PopupHoldsItsBase
PROPERTIES ImplementsEditStore
