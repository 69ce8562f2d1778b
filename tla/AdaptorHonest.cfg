\* Honest run on a ring of five (three inner decoys): no field is altered in flight, and the honest parties are weakly fair.
CONSTANTS
    ELL = 46337
    RING_SIZE = 5
    DOMAIN_TAG = 67
    Secrets = {3, 8}
    Nonces = {4, 9}
    MSG = 104
    DECOYS <- MC_DECOYS
    TamperFields = {}

SPECIFICATION FairSpec

INVARIANT TypeOK
PROPERTY SwapRefined
PROPERTY EventuallyPublished
