SPECIFICATION Spec
CONSTANTS
    Run = {r1, r2}
    Title <- OneTitle
    Scout = Scout
    Turns = {turn}
    User = User
    Detach = Detach
    Halt = Halt
    Top = Top
    None = None
    MaxParallel = 1
    MaxDepth = 1
    MaxEpoch = 1
    MaxWire = 1
    Faults = {"disconnect", "restart", "disk", "halt", "cut"}
SYMMETRY RunSymmetry
INVARIANTS
    ParallelLimit
    NoGhostRun
PROPERTIES
    ReportsWrittenOnce
CHECK_DEADLOCK FALSE
