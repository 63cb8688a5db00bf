SPECIFICATION Spec
CONSTANTS
    ByteBits       = 2
    ByteMod        = 4
    DataMask       = 63
    Unspecified   <- MCUnspecified
    DebugVm        = TRUE
    StackSize      = 32
    MaxVmMainArgs  = 2
    MaxSyscallArgs = 5
    OpStackSize    = 4
    Canary         = 7
    OpStacks      <- MCOpStacks
    Programs      <- MCPrograms
    HostArgs      <- MCHostArgs
    MaxLevel       = 2
    MaxCalls       = 1
    Meaning       <- MCMeaning
INVARIANTS
    LevelCounted
CHECK_DEADLOCK FALSE
