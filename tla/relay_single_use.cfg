\* Two phones answer, two retrieves: is retrieval single-use?
SPECIFICATION Spec
CONSTANTS
    Responds = {r1, r2}
    Retrieves = {q1, q2}
    Cancels = {}
    Acks = {}
    Sockets = {}
    DatabaseFails = FALSE
    None = None
INVARIANTS SingleUse
CHECK_DEADLOCK FALSE
