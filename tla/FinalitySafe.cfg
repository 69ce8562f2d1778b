\* No reorganisation; esplora may answer a body that is not JSON.
CONSTANTS
    FINALITY = 3
    START_HEIGHT = 1
    MAX_HEIGHT = 30
    MAX_REORGS = 0
    HEIGHT_BITS = 5
    MalformedBodies = TRUE

SPECIFICATION Spec

INVARIANT TypeOK
INVARIANT FinalWhenReturned

\* the wait really stops: it returns or panics, and the chain stops at its bound
CHECK_DEADLOCK FALSE
