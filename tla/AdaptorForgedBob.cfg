\* A faulty Bob sends Alice an altered I_b (Message1) or s_0_b (Message3), which no proof covers.
CONSTANTS
    ELL = 46337
    RING_SIZE = 3
    DOMAIN_TAG = 67
    Secrets = {5}
    Nonces = {4, 9}
    MSG = 104
    DECOYS <- MC_DECOYS
    TamperFields <- MC_BOB_FIELDS

SPECIFICATION Spec

INVARIANT RoundTrip
