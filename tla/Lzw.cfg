CONSTANTS
    Literals = 16
    InitBits = 5
    Bits = {6, 7}
    BlockModes = {TRUE}
    ByteBits = 4
    OBufSiz = 11
    OutSpare = 24
    OutSlack = 11
    InSpare = 7
    IBufSiz = 11
    CheckGap = 3
    Openings <- Texts
    Letters = {0, 1}
    MaxTail = 5
SPECIFICATION Spec
INVARIANTS TypeOK Restored
PROPERTY RoundTrip
CHECK_DEADLOCK FALSE
