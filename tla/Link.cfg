SPECIFICATION FairLinkSpec
CONSTANTS
    q = q
    Caller = {c, q}
    c = c
    Quitter = q
    MaxNotices = 3
    LinkFaults = {"lost"}
INVARIANTS
    LinkTypeOK
    CallsAreAnswered
    NoticesInOrder
PROPERTY
    ShutdownEnds
CHECK_DEADLOCK FALSE
