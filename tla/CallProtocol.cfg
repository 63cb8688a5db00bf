SPECIFICATION Spec
CONSTANTS
    StackTop   = 400
    StackSize  = 200
    EntryFrame <- MCEntryFrame
    FrameSizes <- MCFrameSizes
    MaxFrame   = 64
    DebugVm    = TRUE
    MaxLevel   = 3
    StackFloor <- MCStackFloor
INVARIANTS
    TypeOK
    LevelCountsActivations
    NestedBelow
    StackRestored
    FramesInImage
