\* Two phones, an account and the account made by its recovery, one move.
SPECIFICATION Spec
CONSTANTS
    Phones = {p1, p2}
    Accounts = {a1, a2}
    None = None
    MaxMoves = 1
    MaxEdits = 1
SYMMETRY Symmetry
INVARIANTS StoredKeyOpensVault LogoutLeavesAWayBack RegistrationSurvivesMoving
CHECK_DEADLOCK FALSE
