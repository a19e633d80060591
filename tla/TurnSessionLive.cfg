SPECIFICATION FairSpec
CONSTANTS
    Call = {c1, c2}
    Query = {q1, q2}
    None = None
    MaxChunks = 2
    MaxNotices = 1
    MaxErrors = 0
    Faults = {"refuse", "emit", "crash"}
INVARIANTS
    HistoryReadable
PROPERTIES
    KeepsConversation
    StoppedCloses
CHECK_DEADLOCK FALSE
