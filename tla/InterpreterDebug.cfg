SPECIFICATION FairSpec
CONSTANTS
    ByteBits       = 4
    ByteMod        = 16
    DataMask       = 255
    Unspecified   <- MCUnspecified
    DebugVm        = TRUE
    StackSize      = 128
    MaxVmMainArgs  = 2
    MaxSyscallArgs = 5
    OpStackSize    = 8
    Canary         = 7
    OpStacks      <- MCOpStacks
    Programs      <- MCAllPrograms
    HostArgs      <- MCHostArgs
    MaxLevel       = 4
    MaxCalls       = 2
    Meaning       <- MCMeaning
    FrameSizes    <- MCFrameSizes
    MaxFrame       = 24
INVARIANTS
    FramesIntact
    Disciplined
PROPERTIES
    CallsReturn
CHECK_DEADLOCK FALSE
