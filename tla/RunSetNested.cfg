SPECIFICATION Spec
CONSTANTS
    Run = {r1, r2}
    Title <- OneTitle
    Scout = Scout
    Turns = {turn}
    User = User
    Detach = Detach
    Halt = Halt
    Top = Top
    None = None
    MaxParallel = 2
    MaxDepth = 2
    MaxEpoch = 2
    MaxWire = 2
    Faults = {}
INVARIANTS
    TypeOK
    OneExecutor
    CancelReaches
    StopReaches
    NoMissedWakeup
    RefusalExplained
PROPERTIES
    KeepsLifecycle
CHECK_DEADLOCK FALSE
