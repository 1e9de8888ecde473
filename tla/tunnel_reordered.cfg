SPECIFICATION Spec
CONSTANTS
    r1 = r1
    r2 = r2
    k1 = k1
    k2 = k2
    Rids = {r1}
    Keys = {k1}
    KeysOf <- AllKeys
    UpWindow = 3
    DownWindow = 1
    Faults = {"client_send", "cancel_send", "server_send", "download", "upstream", "store", "evict"}
    RefFrames <- TwoFrames
    FullFrames <- ThreeFrames
    DocumentThreshold = 0
    MaxReplays = 1
    MaxPieces = 1
    MissLimit = 1
    ConcurrentUpdates = FALSE
    WaitCovers = FALSE
    TtlCovers = FALSE
    MaxClientRestarts = 1
    MaxServerRestarts = 1
INVARIANTS ForwardedOnce
PROPERTIES IsConnection
CHECK_DEADLOCK FALSE
