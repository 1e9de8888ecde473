SPECIFICATION Spec
CONSTANTS
    r1 = r1
    r2 = r2
    k1 = k1
    Rids = {r1, r2}
    Keys = {k1}
    KeysOf <- AllKeys
    UpWindow = 1
    DownWindow = 1
    Faults = {"client_send"}
    RefFrames <- OneFrame
    FullFrames <- TwoOrThree
    DocumentThreshold = 3
    MaxReplays = 1
    MaxFrames = 3
    MaxRestarts = 1
INVARIANTS WireDiscipline ReplayBudget
CHECK_DEADLOCK FALSE
