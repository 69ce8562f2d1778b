\* Every subcommand; any starting balance, two deposits; every call may fail.
CONSTANTS
    Quotes <- MC_Quotes
    MAX_FUNDS = 4
    MAX_DEPOSITS = 2
    FEE = 1
    DUST = 2
    Failures = TRUE
    Commands <- MC_Commands
    EventLoopResults <- MC_EventLoopResults

SPECIFICATION Spec

INVARIANT TypeOK
INVARIANT OkOnlyAfterSwap

\* main returns, and the user may stop depositing
CHECK_DEADLOCK FALSE
