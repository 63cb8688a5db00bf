SPECIFICATION Spec
CONSTANTS
    ByteBits   = 6
    ByteMod    = 64
    DataMask   = 0
    HeaderSize = 32
    MaxImage   = 200
    MaxBss     = 120
    StackSize  = 32
    Files     <- MCFiles
INVARIANTS
    FilesFollowed
    TargetsChecked
    ImageSized
PROPERTIES
    ImplementsLifecycle
CHECK_DEADLOCK FALSE
