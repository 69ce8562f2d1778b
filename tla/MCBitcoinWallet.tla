--------------------------- MODULE MCBitcoinWallet ---------------------------
EXTENDS BitcoinWallet

\* Two payments by the user.
MC_Coins == {1, 2}

=============================================================================
