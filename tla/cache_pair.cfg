SPECIFICATION PairSpec
CONSTANTS
    Keys = {1, 2, 3, 4, 5}
    Values = {0, 1, 2, 3, 4, 5}
    Cacheable = {1, 2, 3, 4, 5}
    Places = {"tools", "system", "messages"}
    FieldOf <- Fields
    CacheFields = {"tools", "system", "messages"}
    SizeOf <- Sizes
    Ttl = 2
    MaxItems = 2
    MaxBytes = 3
    MaxTime = 2
    Skew = 1
    Requests = 3
    Bodies <- Prompts
    NoBody <- Nothing
    MaxReplays = 1
INVARIANTS PairTypeOK WithinLimits ServedFresh EvictionFollowsLoop ForwardedOriginal StampsBehind TablesAgree
PROPERTIES NeverAged
CHECK_DEADLOCK FALSE
