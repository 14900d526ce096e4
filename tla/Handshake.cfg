CONSTANTS
    PartLen = 7
    KeyLen = 3
    DigestLen = 2
    OffsetLen = 2
    Bytes = {0, 1, 2}
SPECIFICATION Spec
INVARIANTS C1IsUnderstood S1Parses
CHECK_DEADLOCK FALSE
