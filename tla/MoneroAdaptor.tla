--------------------------- MODULE MoneroAdaptor ---------------------------
(***************************************************************************)
(* The pure kernel of the monero-adaptor crate (src/monero-adaptor/src/   *)
(* lib.rs): the group, the two hashes, the per-step ring challenge, the    *)
(* challenge chain of signing and of verification, the DLEQ proof, the     *)
(* hash commitment and the adaptation of an adaptor signature.            *)
(*                                                                         *)
(* Group.  Ed25519's prime-order subgroup is cyclic of prime order ell, so *)
(* it is isomorphic to the integers mod ell.  A point is written as its    *)
(* discrete logarithm to the base point: the base point is 1, point        *)
(* addition is + mod ELL and scalar multiplication is * mod ELL.  The      *)
(* model keeps the algebra exact and only shrinks ell to a prime ELL whose *)
(* square still fits TLC's 32-bit integers.  Compression of a point to 32  *)
(* bytes is injective on the subgroup and is left out: hashes take points. *)
(*                                                                         *)
(* Hashes.  Scalar::from_hash(Sha512(..)) is a fixed, deterministic,      *)
(* non-linear map from a sequence of group elements and tags to a scalar;  *)
(* the model folds a quadratic mixing step over the sequence.  Nothing in  *)
(* the protocol depends on which map it is, only that signer and verifier  *)
(* compute the same one over the same transcript in the same order.        *)
(***************************************************************************)
EXTENDS Integers, Sequences, SequencesExt

CONSTANTS
    ELL,        \* the prime order of the group (ell of Curve25519, shrunk)
    RING_SIZE,  \* number of ring members (11 in the code)
    DOMAIN_TAG  \* the transcript's domain separator "CSLAG_c", as a number

ASSUME ELL > 2 /\ ELL <= 46340   \* ELL * ELL stays below 2^31
ASSUME RING_SIZE >= 2
ASSUME DOMAIN_TAG \in Nat

Scalars == 0..(ELL - 1)
Points  == 0..(ELL - 1)

ED25519_BASEPOINT_POINT == 1

PointAdd(P, Q) == (P + Q) % ELL
ScalarMul(s, P) == (s * P) % ELL
ScalarNeg(s) == (ELL - s) % ELL
ScalarAdd(a, b) == (a + b) % ELL
ScalarSub(a, b) == (a - b) % ELL
ScalarTimes(a, b) == (a * b) % ELL

(***************************************************************************)
(* One absorption step of the transcript hash, and Scalar::from_hash of a  *)
(* SHA-512 over a whole transcript.  The step is a function so that its   *)
(* arguments are evaluated once, also where TLC evaluates ENABLED.        *)
(***************************************************************************)
AbsorbStep[acc, x \in Int] ==
    LET y == (acc + x) % ELL
    IN  (3 * ScalarTimes(y, y) + acc + 1) % ELL

Absorb(acc, x) == AbsorbStep[acc, x]

HashToScalar(transcript) == FoldLeft(Absorb, 0, transcript)

(***************************************************************************)
(* hash_point_to_point: Monero's hash_to_p3 of the compressed point,      *)
(* another fixed map, seeded apart from the transcript hash.  The C code   *)
(* always yields a point of the subgroup, so the "not y-coordinate" error  *)
(* of the decompression never fires.                                       *)
(***************************************************************************)
hash_point_to_point(point) == Absorb(Absorb(7, point), point)

(***************************************************************************)
(* The prefix every ring challenge starts with: DOMAIN_TAG, the           *)
(* concatenated ring, the message.                                        *)
(***************************************************************************)
Prefix(ring, msg) == <<DOMAIN_TAG>> \o ring \o <<msg>>

(***************************************************************************)
(* challenge: L_i = s_i*G + h_prev*pk_i, R_i = s_i*H_p(pk_i) + h_prev*I,   *)
(* h_next = H(prefix || L_i || R_i).  h_prev is taken by a function, so   *)
(* the chain of challenges the folds build is evaluated once per link.    *)
(***************************************************************************)
challenge(s_i, pk_i, h_prev, I, prefix) ==
    LET next[h \in Int] ==
            LET L_i == PointAdd(ScalarMul(s_i, ED25519_BASEPOINT_POINT), ScalarMul(h, pk_i))
                R_i == PointAdd(ScalarMul(s_i, hash_point_to_point(pk_i)), ScalarMul(h, I))
            IN  HashToScalar(prefix \o <<L_i, R_i>>)
    IN  next[h_prev]

(***************************************************************************)
(* final_challenge: fold the RING_SIZE-1 fake responses through challenge *)
(* from h_0, the j-th (1-based) response with ring[j+1], i.e. the code's  *)
(* ring[i + 1] for 0-based i: pk_1 .. pk_{RING_SIZE-1}.                   *)
(***************************************************************************)
final_challenge(fake_responses, ring, h_0, I, msg) ==
    LET step(h, j) == challenge(fake_responses[j], ring[j + 1], h, I, Prefix(ring, msg))
    IN  FoldLeft(step, h_0, [j \in 1..(RING_SIZE - 1) |-> j])

(***************************************************************************)
(* foo: the joint initial challenge h_0, with A's adaptor statement       *)
(* (R_a, R'_a) folded into both aggregate commitments, and h_last, the    *)
(* end of the fake-response chain under key image I_a + I_b.  Returns     *)
(* <<h_last, h_0>> as the code does.                                       *)
(***************************************************************************)
foo(fake_responses, ring, T_a, T_b, R_a, I_hat_a, I_hat_b, R_prime_a, I_a, I_b, msg) ==
    LET h_0 == HashToScalar(Prefix(ring, msg)
                            \o << PointAdd(PointAdd(T_a, T_b), R_a),
                                  PointAdd(PointAdd(I_hat_a, I_hat_b), R_prime_a) >>)
    IN  << final_challenge(fake_responses, ring, h_0, PointAdd(I_a, I_b), msg), h_0 >>

(***************************************************************************)
(* Mutant of adapt: r_last added up as integers, not reduced mod ell.     *)
(***************************************************************************)
adapt_unreduced(sig, y) ==
    [ responses |-> sig.fake_responses \o << sig.s_0_a + sig.s_0_b + y >>,
      h_0       |-> sig.h_0,
      I         |-> sig.I ]

(***************************************************************************)
(* AdaptorSignature::adapt: r_last = s_0_a + s_0_b + y is appended after  *)
(* the fake responses.                                                     *)
(***************************************************************************)
adapt(sig, y) ==
    [ responses |-> sig.fake_responses \o << ScalarAdd(ScalarAdd(sig.s_0_a, sig.s_0_b), y) >>,
      h_0       |-> sig.h_0,
      I         |-> sig.I ]

(***************************************************************************)
(* Mutant of verify: response j paired with ring[j] instead of            *)
(* ring[(j mod RING_SIZE) + 1], the off-by-one the index convention        *)
(* invites.                                                                *)
(***************************************************************************)
verify_unshifted(sig, ring, msg) ==
    LET step(h, j) == challenge(sig.responses[j], ring[j], h, sig.I, Prefix(ring, msg))
    IN  FoldLeft(step, sig.h_0, [j \in 1..RING_SIZE |-> j]) = sig.h_0

(***************************************************************************)
(* Signature::verify: run the chain over all RING_SIZE responses from h_0, *)
(* response j (1-based) with ring[(j mod RING_SIZE) + 1], which is the     *)
(* code's ring[(i + 1) % RING_SIZE]; accept iff it returns to h_0.         *)
(***************************************************************************)
verify(sig, ring, msg) ==
    LET step(h, j) == challenge(sig.responses[j], ring[(j % RING_SIZE) + 1], h, sig.I,
                                Prefix(ring, msg))
    IN  FoldLeft(step, sig.h_0, [j \in 1..RING_SIZE |-> j]) = sig.h_0

(***************************************************************************)
(* The Chaum-Pedersen transcript hash over G, xG, H, xH, rG, rH.           *)
(***************************************************************************)
DleqChallenge(G, xG, H, xH, rG, rH) == HashToScalar(<<G, xG, H, xH, rG, rH>>)

(***************************************************************************)
(* DleqProof::new with the nonce r drawn by the caller's OsRng.           *)
(***************************************************************************)
DleqProof_new(G, xG, H, xH, x, r) ==
    LET c == DleqChallenge(G, xG, H, xH, ScalarMul(r, G), ScalarMul(r, H))
    IN  [s |-> ScalarAdd(r, ScalarTimes(c, x)), c |-> c]

(***************************************************************************)
(* Mutant of DleqProof::verify: the final comparison dropped.             *)
(***************************************************************************)
DleqProof_verify_accepting(proof, G, xG, H, xH) == TRUE

(***************************************************************************)
(* DleqProof::verify: rG = s*G - c*xG, rH = s*H - c*xH, accept iff the    *)
(* recomputed challenge equals c.                                          *)
(***************************************************************************)
DleqProof_verify(proof, G, xG, H, xH) ==
    LET rG == PointAdd(ScalarMul(proof.s, G), ScalarMul(ScalarNeg(proof.c), xG))
        rH == PointAdd(ScalarMul(proof.s, H), ScalarMul(ScalarNeg(proof.c), xH))
    IN  proof.c = DleqChallenge(G, xG, H, xH, rG, rH)

(***************************************************************************)
(* Commitment::new: SHA-512 of fake_responses || I_a || I_hat_a || T_a.    *)
(* The 64-byte digest is taken as collision-free, so the model keeps the  *)
(* committed tuple itself as the digest: equal digests, equal openings.   *)
(***************************************************************************)
Commitment_new(fake_responses, I_a, I_hat_a, T_a) ==
    [digest |-> <<fake_responses, I_a, I_hat_a, T_a>>]

(***************************************************************************)
(* Mutant of Opening::open: the opening accepted without comparing it     *)
(* with the commitment.                                                    *)
(***************************************************************************)
Opening_open_unchecked(opening, commitment) == [ok |-> TRUE, val |-> opening]

(***************************************************************************)
(* Mutant of Opening::open: the commitment rebuilt with I_hat_a and T_a   *)
(* in the other order than Commitment::new hashes them.                   *)
(***************************************************************************)
Opening_open_reordered(opening, commitment) ==
    IF Commitment_new(opening.fake_responses, opening.I_a, opening.T_a, opening.I_hat_a)
         = commitment
    THEN [ok |-> TRUE, val |-> opening]
    ELSE [ok |-> FALSE, val |-> opening]

(***************************************************************************)
(* Opening::open: rebuild the commitment from the opening and compare;    *)
(* on mismatch the error "opening does not match commitment".             *)
(***************************************************************************)
Opening_open(opening, commitment) ==
    IF Commitment_new(opening.fake_responses, opening.I_a, opening.I_hat_a, opening.T_a)
         = commitment
    THEN [ok |-> TRUE, val |-> opening]
    ELSE [ok |-> FALSE, val |-> opening]

=============================================================================
