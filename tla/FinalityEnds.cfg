\* Two top blocks may be dropped; esplora always answers JSON.
CONSTANTS
    FINALITY = 6
    START_HEIGHT = 1
    MAX_HEIGHT = 8
    MAX_REORGS = 2
    HEIGHT_BITS = 5
    MalformedBodies = FALSE

SPECIFICATION Spec

PROPERTY EventuallyEnds

\* the wait really stops: it returns or panics, and the chain stops at its bound
CHECK_DEADLOCK FALSE
