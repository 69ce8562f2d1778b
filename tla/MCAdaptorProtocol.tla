------------------------- MODULE MCAdaptorProtocol -------------------------
(***************************************************************************)
(* Model-checking instance of AdaptorProtocol: the group shrunk to the    *)
(* prime 46337, decoys for any ring up to the eleven of the code; each     *)
(* cfg chooses the ring size and the values secrets and OsRng draws take. *)
(***************************************************************************)
EXTENDS AdaptorProtocol

\* ring[1..RING_SIZE-1]: the decoy public keys x_1 G, x_2 G, ..., distinct,
\* enough for the ring of eleven the code and spec.md use
MC_DECOYS == SubSeq(<<11, 29, 5, 17, 23, 31, 2, 41, 13, 7>>, 1, RING_SIZE - 1)

\* the faulty peer changes fields the DLEQ proofs and the commitment cover
MC_CHECKED_FIELDS == {"c_a", "pi_a", "T_b", "I_hat_b", "pi_b", "d_a"}

\* the faulty peer (Alice) changes the s_0_a she sends in Message2
MC_S0A_FIELD == {"s_0_a"}

\* the faulty peer (Bob) changes I_b in Message1 and s_0_b in Message3,
\* which no proof covers
MC_BOB_FIELDS == {"I_b", "s_0_b"}




=============================================================================
