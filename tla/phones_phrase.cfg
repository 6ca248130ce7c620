\* Two phones, one account recovered as another.
SPECIFICATION Spec
CONSTANTS
    Phones = {p1, p2}
    Accounts = {a1, a2}
    None = None
    MaxMoves = 0
    MaxEdits = 2
SYMMETRY Symmetry
INVARIANTS PhraseFindsLatestVault
CHECK_DEADLOCK FALSE
