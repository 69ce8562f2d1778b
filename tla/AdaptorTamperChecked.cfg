\* A faulty peer alters, in flight, fields covered by a DLEQ proof or by the commitment.
CONSTANTS
    ELL = 46337
    RING_SIZE = 3
    DOMAIN_TAG = 67
    Secrets = {5}
    Nonces = {4, 9}
    MSG = 104
    DECOYS <- MC_DECOYS
    TamperFields <- MC_CHECKED_FIELDS

SPECIFICATION Spec

PROPERTY SwapRefined
CHECK_DEADLOCK FALSE
