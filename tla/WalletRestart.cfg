\* The CLI is started twice over the same wallet datadir; the I/O calls of
\* Wallet::new may fail.
CONSTANTS
    MAX_STARTS = 2
    Coins <- MC_Coins
    Failures = TRUE

SPECIFICATION Spec

INVARIANT WalletReopens
CHECK_DEADLOCK FALSE
