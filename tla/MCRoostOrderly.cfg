SPECIFICATION Spec
CONSTANTS
    s1 = s1  s2 = s2  f1 = f1  f2 = f2  f3 = f3
    Session = {s1, s2}
    Frame = {f1, f2, f3}
    Main = Main
    Log = Log
    None = None
    MaxMRU = 2
    QueueCap = 6
    Backlog = 1
    Mortal = {f1, f2, f3}
    ParkedMainExits = FALSE
    SpawnMayFail = FALSE
    SetupJobs = FALSE
SYMMETRY Symmetric
INVARIANTS
    FocusValid
    FramesAccounted
    SettledShowsFocus
