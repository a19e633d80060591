SPECIFICATION FairSpec
CONSTANTS
    c1 = c1
    w1 = w1
    w2 = w2
    s1 = s1
    w3 = w3
    s2 = s2
    Req = {c1, w1, w2, s1, w3, s2}
    Scenes <- Together
    Kind <- Kinds
    Request <- Requests
    Rulebook <- Rules1
    Home = {"inside", "outside"}
    Inspection = {"ls"}
    None = None
    Faults = {"quit", "lost"}
INVARIANTS
    TypeOK
    SheetHasOwner
    EffectsAllowed
    WaitingIsShown
    StopKept
PROPERTY
    EndsUnlessUnseen
CHECK_DEADLOCK FALSE
