SPECIFICATION Spec
CONSTANTS
    Commands <- Lines
    Present  <- Files
INVARIANTS
    SuccessMeansCompiled
    TempRemoved
CHECK_DEADLOCK FALSE
