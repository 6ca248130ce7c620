\* Two phones and one move of an account.
SPECIFICATION Spec
CONSTANTS
    Phones = {p1, p2}
    Accounts = {a1}
    None = None
    MaxMoves = 1
    MaxEdits = 0
SYMMETRY Symmetry
INVARIANTS VaultMovesAlong
CHECK_DEADLOCK FALSE
