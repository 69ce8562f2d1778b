\* buy-xmr only, with no failing call: the swap completes and the event loop ends.
CONSTANTS
    Quotes <- MC_Quotes
    MAX_FUNDS = 4
    MAX_DEPOSITS = 2
    FEE = 1
    DUST = 2
    Failures = FALSE
    Commands = {"buy_xmr"}
    EventLoopResults <- MC_EventLoopResults

SPECIFICATION Spec

INVARIANT SwapOkReported

\* main returns, and the user may stop depositing
CHECK_DEADLOCK FALSE
