SPECIFICATION PreSpec
CONSTANTS
    HSSIZ        = 7
    NARG         = 4
    STRLEN       = 40
    Depth        = 12
    LongBits     = 12
    UnsignedFrom = 2048
    Programs    <- MCPrograms
    NIF          = 5
    NINCLUDE     = 4
    MaxInclude   = 3
    INS          = 16
    ScannedTexts <- FilesToScan
INVARIANTS
    ScannedAsWhole
    GroupsHold
    LinesHold
    TextHolds
PROPERTIES
    ScanEnds
CHECK_DEADLOCK FALSE
