SPECIFICATION Spec
CONSTANTS
    Calls  <- MCCalls
    Modulus = 512
    Room    = 8
INVARIANTS
    SortsMovesFinds
    NumbersKept
CHECK_DEADLOCK FALSE
