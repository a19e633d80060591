SPECIFICATION Spec
CONSTANTS
    Run = {r1}
    Title <- TitleAndScout
    Scout = Scout
    Turns = {turn}
    User = User
    Detach = Detach
    Halt = Halt
    Top = Top
    None = None
    MaxParallel = 1
    MaxDepth = 1
    MaxEpoch = 3
    MaxWire = 2
    Faults = {"cut", "restart", "disk"}
INVARIANTS
    Agreement
    DoneIsDurable
CHECK_DEADLOCK FALSE
