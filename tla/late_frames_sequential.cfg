SPECIFICATION Spec
CONSTANTS
    r1 = r1
    r2 = r2
    k1 = k1
    k2 = k2
    Rids = {r1}
    Keys = {}
    KeysOf <- AllKeys
    UpWindow = 3
    DownWindow = 1
    Faults = {}
    RefFrames <- OneFrame
    FullFrames <- ThreeFrames
    DocumentThreshold = 0
    MaxReplays = 1
    MaxPieces = 2
    MissLimit = 1
    ConcurrentUpdates = FALSE
    WaitCovers = TRUE
    TtlCovers = TRUE
    MaxClientRestarts = 0
    MaxServerRestarts = 0
INVARIANTS LateFramesAwaited
CHECK_DEADLOCK FALSE
