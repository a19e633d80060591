SPECIFICATION Spec
CONSTANTS
    Run = {r1, r2}
    Title <- OneTitle
    Scout = Scout
    Turns = {turn}
    User = User
    Detach = Detach
    Halt = Halt
    Top = Top
    None = None
    MaxParallel = 2
    MaxDepth = 1
    MaxEpoch = 1
    MaxWire = 1
    Faults = {}
INVARIANTS
    ReportVersionIsOwn
CHECK_DEADLOCK FALSE
