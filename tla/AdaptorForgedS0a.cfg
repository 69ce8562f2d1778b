\* A faulty Alice sends Bob a Message2 whose s_0_a differs from the one she signs with.
CONSTANTS
    ELL = 46337
    RING_SIZE = 3
    DOMAIN_TAG = 67
    Secrets = {5}
    Nonces = {4, 9}
    MSG = 104
    DECOYS <- MC_DECOYS
    TamperFields <- MC_S0A_FIELD

SPECIFICATION Spec

INVARIANT BobExtractsWitness
