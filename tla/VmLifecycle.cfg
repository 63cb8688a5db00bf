SPECIFICATION LifecycleSpec
CONSTANTS
    StackTop   = 200
    StackSize  = 100
    EntryFrame = 60
    FrameSizes = {8, 64}
    MaxFrame   = 64
    DebugVm    = TRUE
    MaxLevel   = 2
    StackFloor = 0
    MaxSymbols = 2
INVARIANTS
    BlocksAccounted
    RunningIsLoaded
