SPECIFICATION FairSpec
CONSTANTS
    r1 = r1
    k1 = k1
    Rids = {r1}
    Keys = {k1}
    KeysOf <- AllKeys
    Calls = {r1}
    UpWindow = 3
    DownWindow = 1
    Faults = {"server_send", "download", "upstream", "evict"}
    MaxPieces = 3
    MaxOriginPieces = 3
    MissLimit = 1
    ConcurrentUpdates = FALSE
    WaitCovers = TRUE
    TtlCovers = TRUE
INVARIANTS ProcessedOnce EofMeansWhole
PROPERTIES DropsCancelled CancelReachesOrigin
CHECK_DEADLOCK FALSE
