\* Two phones answer, two retrieves, a cancel and a subscriber: every interleaving.
SPECIFICATION Spec
CONSTANTS
    Responds = {r1, r2}
    Retrieves = {q1, q2}
    Cancels = {c1}
    Acks = {}
    Sockets = {s1}
    DatabaseFails = TRUE
    None = None
SYMMETRY Symmetry
INVARIANTS TypeOK HandedOutOnceUnlessOverwritten ServedWasStored ToldFindsAnswer
PROPERTIES ImplementsMailbox ClosedForGood
CHECK_DEADLOCK FALSE
