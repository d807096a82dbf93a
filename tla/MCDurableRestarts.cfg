SPECIFICATION Spec
CONSTANTS
    s1 = s1  s2 = s2  f1 = f1  f2 = f2
    Session = {s1, s2}
    Frame = {f1, f2}
    Main = Main
    Log = Log
    None = None
    MaxMRU = 1
    QueueCap = 2
    MaxStarts = 3
    SaveMayFail = TRUE
    SpawnMayFail = TRUE
SYMMETRY Symmetric
INVARIANTS
    SessionsPreserved
    FramesBound
    EnvMirrors
    OnePlace
    LogWhereSaid
    NoFrameUnderMain
