SPECIFICATION FairSpec
CONSTANTS
    r1 = r1
    r2 = r2
    k1 = k1
    k2 = k2
    Rids = {r1}
    Keys = {k1}
    KeysOf <- AllKeys
    UpWindow = 1
    DownWindow = 1
    Faults = {"client_send", "cancel_send", "server_send", "download", "upstream", "store", "evict"}
    RefFrames <- ThreeFrames
    FullFrames <- FourFrames
    DocumentThreshold = 4
    MaxReplays = 1
    MaxPieces = 3
    MissLimit = 1
    ConcurrentUpdates = FALSE
    WaitCovers = TRUE
    TtlCovers = TRUE
    MaxClientRestarts = 1
    MaxServerRestarts = 1
INVARIANTS TypeOK StreamPrefix CleanEndComplete OnlyWholeBodies NoOrphanAfterCleanEnd ReplayRepairs LeaksExplained
PROPERTIES EveryRequestEnds
CHECK_DEADLOCK FALSE
