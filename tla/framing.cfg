SPECIFICATION FairSpec
CONSTANTS
    Sizes = {0, 4}
    Lengths = {2, 3, 5}
    Encodings <- AnyLengths
    Digits <- ShortNumbers
    EofChars = 1
    MinChars = 6
    MaxChars = 8
    Configured = {0, 9}
    TotalHint = 5
INVARIANTS TypeOK FramesFit Tight RaisesOnlyIfHopeless
PROPERTIES Terminates
CHECK_DEADLOCK FALSE
