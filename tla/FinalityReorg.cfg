\* One top block may be dropped; esplora always answers JSON.
CONSTANTS
    FINALITY = 2
    START_HEIGHT = 1
    MAX_HEIGHT = 6
    MAX_REORGS = 1
    HEIGHT_BITS = 5
    MalformedBodies = FALSE

SPECIFICATION Spec

INVARIANT FinalWhenReturned

\* the wait really stops: it returns or panics, and the chain stops at its bound
CHECK_DEADLOCK FALSE
