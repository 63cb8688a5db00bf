SPECIFICATION FairSpec
CONSTANTS
    ByteBits       = 6
    ByteMod        = 64
    DataMask       = 0
    HeaderSize     = 32
    MaxImage       = 200
    MaxBss         = 200
    CommandLines  <- MCCommandLines
    ListFiles     <- MCListFiles
    AsmFiles      <- MCAsmFiles
    Numbers       <- MCNumbers
    LocalNames    <- MCLocalNames
    HashString    <- MCHashString
    DefaultBuckets = 3
    StackSize      = 32
    FrameLimit     = 2047
    ArgumentLimit  = 64
    ErrorBound     = 3
INVARIANTS
    SegmentsMeet
    CodeDecodes
    OnlyLegalWritten
PROPERTIES
    LabelsAtData
    ArgumentsBelowLocals
    Ends
CHECK_DEADLOCK FALSE
