SPECIFICATION CompilerSpec
CONSTANTS
    WordBits    = 4
    CharBits    = 2
    Operands    <- MCOperands
    Envs        <- Values
    Base        = 4
    Elements    = 3
    SwitchBits  = 3
    Unsigned    = FALSE
    Programs   <- Seeds
    Wrapped    <- Around
    Inputs     <- Answered
    MaxEvents   = 6
    MaxRounds   = 8
    Globals     = {3, 4}
    Registers   = {2}
    Places      = {1, 2, 3, 4, 5, 6}
    Statements <- Listed
    Longest     = 3
    Crowded     = 9
    Memories   <- Contents
    Modulus     = 8
INVARIANTS
    ExpressionsKept
    StatementsKept
    SharingKept
CHECK_DEADLOCK FALSE
