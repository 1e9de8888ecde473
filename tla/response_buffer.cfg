SPECIFICATION Spec
CONSTANTS
    Interval = 4
    FlushBytes = 6
    MaxPiece = 2
    MaxGap = 2
    MaxSend = 2
INVARIANTS TypeOK WaitBounded
CHECK_DEADLOCK FALSE
