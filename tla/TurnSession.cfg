SPECIFICATION Spec
CONSTANTS
    Call = {c1, c2}
    Query = {q1, q2}
    None = None
    MaxChunks = 1
    MaxNotices = 1
    MaxErrors = 1
    Faults = {"timeout", "disconnect", "quit"}
SYMMETRY SessionSymmetry
INVARIANTS
    TypeOK
    OneRunning
    ShownIsDurable
    SteeredOnce
    AnswerWhole
PROPERTIES
    ClosedStays
CHECK_DEADLOCK FALSE
