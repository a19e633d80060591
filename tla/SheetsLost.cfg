SPECIFICATION UnattendedSpec
CONSTANTS
    c1 = c1
    w1 = w1
    w2 = w2
    s1 = s1
    w3 = w3
    s2 = s2
    Req = {w1}
    Scenes = {{w1}}
    Kind <- Kinds
    Request <- Requests
    Rulebook <- Rules1
    Home = {"inside", "outside"}
    Inspection = {"ls"}
    None = None
    Faults = {"lost"}
PROPERTY
    DisconnectUnblocks
CHECK_DEADLOCK FALSE
