SPECIFICATION FairSpec
CONSTANTS
    Run = {r1, r2}
    Title <- OneTitle
    Scout = Scout
    Turns = {turn}
    User = User
    Detach = Detach
    Halt = Halt
    Top = Top
    None = None
    MaxParallel = 2
    MaxDepth = 2
    MaxEpoch = 1
    MaxWire = 2
    Faults = {}
PROPERTIES
    LockFreed
    CancelledSettles
    JoinReturns
CHECK_DEADLOCK FALSE
