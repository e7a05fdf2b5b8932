CONSTANTS
    Literals = 16
    InitBits = 5
    Bits = {5}
    BlockModes = {TRUE}
    ByteBits = 4
    OBufSiz = 11
    OutSpare = 24
    OutSlack = 11
    InSpare = 7
    IBufSiz = 11
    CheckGap = 3
    Openings <- OneTooMany
    Letters = {0, 1}
    MaxTail = 6
SPECIFICATION Spec
PROPERTY RoundTrip
CHECK_DEADLOCK FALSE
