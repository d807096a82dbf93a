SPECIFICATION FairSpec
CONSTANTS
    s1 = s1  s2 = s2  f1 = f1  f2 = f2
    Session = {s1, s2}
    Frame = {f1, f2}
    Main = Main
    Log = Log
    None = None
    MaxMRU = 1
    QueueCap = 6
    Backlog = 2
    Mortal = {f1, f2}
    ParkedMainExits = FALSE
    SpawnMayFail = FALSE
    SetupJobs = FALSE
PROPERTIES
    DeadFrameLeaves
    RequestAnswered
