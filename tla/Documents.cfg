SPECIFICATION MCSpec
CONSTANTS
    r1 = r1
    r2 = r2
    Reader = {r1, r2}
    p1 = p1
    Path = {p1}
    Content = {a, b, x}
    Text = {a, b}
    Missing = Missing
    Half = 4
    Mark = 3
    MaxStream = 9
    MaxChunk = 6
    t1 = t1
    t2 = t2
    Task = {t1, t2}
    home = home
    Project = {home}
    ProjectOf <- TheProject
    Planned = {t1}
    u1 = u1
    u2 = u2
    Worker = {u1, u2}
    Drafts <- TheDrafts
    Reported = {"done"}
    Notes <- TheNotes
    MaxUpdates = 2
    MaxEdits = 1
    MaxFailures = 1
    Nil = Nil
SYMMETRY AllAlike
INVARIANTS
    ReplacesWhatItSaw
    OutputKept
    ReopensWhole
    
    ProceedResumes

    
CHECK_DEADLOCK FALSE
