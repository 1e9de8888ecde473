SPECIFICATION FairSpec
CONSTANTS
    r1 = r1
    r2 = r2
    k1 = k1
    k2 = k2
    Rids = {r1, r2}
    Keys = {k1}
    KeysOf <- FirstHasKeys
    UpWindow = 1
    DownWindow = 1
    Faults = {"client_send", "download"}
    RefFrames <- OneFrame
    FullFrames <- Growing
    DocumentThreshold = 3
    MaxReplays = 1
    MaxPieces = 1
    MissLimit = 1
    ConcurrentUpdates = FALSE
    WaitCovers = TRUE
    TtlCovers = TRUE
    MaxClientRestarts = 0
    MaxServerRestarts = 0
INVARIANTS BuffersReleased NeverStranded
PROPERTIES OrphansStop QuietUnlessReplayed
CHECK_DEADLOCK FALSE
