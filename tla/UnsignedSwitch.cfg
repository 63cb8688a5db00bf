SPECIFICATION Spec
CONSTANTS
    SwitchBits  = 3
    Unsigned    = TRUE
    Programs   <- Sets
    Wrapped    <- MCWrapped
    Inputs     <- MCInputs
    MaxEvents   = 6
    MaxRounds   = 8
INVARIANTS
    TablesStayInside
CHECK_DEADLOCK FALSE
