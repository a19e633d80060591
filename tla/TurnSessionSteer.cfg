SPECIFICATION Spec
CONSTANTS
    Call = {c1, c2}
    Query = {q1, q2, q3}
    None = None
    MaxChunks = 1
    MaxNotices = 1
    MaxErrors = 0
    Faults = {}
INVARIANTS
    SteeredToItsTurn
CHECK_DEADLOCK FALSE
