-------------------------- MODULE AdaptorProtocol --------------------------
(***************************************************************************)
(* The four-message adaptor-signature protocol of the monero-adaptor      *)
(* crate (src/monero-adaptor/src/lib.rs): Alice0 -> Alice1 -> Alice2 and   *)
(* Bob0 -> Bob1 -> Bob2, exchanging Message0..Message3, and the embedding  *)
(* that finally adapts Alice's adaptor signature with y = r_a and          *)
(* publishes it.                                                           *)
(*                                                                         *)
(* Every method of the code is an operator from the consumed state (and   *)
(* the received message, and the OsRng draws it makes) to the next state  *)
(* or the message it emits; an action is the embedding calling it.  A     *)
(* receive that returns Err consumes the state: the party is "Failed".    *)
(* Messages stay in msgs once sent (next_message takes &self and can be   *)
(* called again, each time drawing a fresh DLEQ nonce); a receive may take *)
(* any message of its type, so duplicates and reordering are covered.     *)
(* A faulty peer (or the transport) may put into flight a copy of an       *)
(* honest message with one field changed, for the fields in TamperFields.  *)
(***************************************************************************)
EXTENDS MoneroAdaptor, FiniteSets

CONSTANTS
    Secrets,      \* values the key shares s'_a, s_b and the witness r_a range over
    Nonces,       \* values an OsRng draw (alpha, fake response, DLEQ r) ranges over
    DECOYS,       \* ring[1..]: the RING_SIZE-1 decoy public keys
    MSG,          \* the 32-byte message to sign, as a number
    TamperFields  \* message fields a faulty peer may change in flight

ASSUME Secrets \subseteq Scalars /\ Nonces \subseteq Scalars /\ Nonces # {}
ASSUME DECOYS \in Seq(Points) /\ Len(DECOYS) = RING_SIZE - 1
ASSUME TamperFields \subseteq {"c_a", "pi_a", "I_b", "T_b", "I_hat_b", "pi_b",
                               "d_a", "s_0_a", "s_0_b"}

VARIABLES
    keys,       \* the embedding's inputs: [s_prime_a, s_b, r_a]
    alice,      \* Alice's protocol state object (Alice0, Alice1, Alice2)
    bob,        \* Bob's protocol state object (Bob0, Bob1, Bob2)
    msgs,       \* messages the parties have emitted
    forged,     \* altered copies of emitted messages put into flight
    published   \* the Monero signature Alice's embedding publishes, or NoSig

vars == <<keys, alice, bob, msgs, forged, published>>

NoSig == [none |-> TRUE]

(***************************************************************************)
(* The embedding's inputs: pk_0 = (s'_a + s_b) G at index 0 of the ring,  *)
(* the decoys after it, and the public adaptor statement R_a = r_a G,     *)
(* R'_a = r_a H_p(pk_0).                                                  *)
(***************************************************************************)
G == ED25519_BASEPOINT_POINT
Ring == << ScalarMul(ScalarAdd(keys.s_prime_a, keys.s_b), G) >> \o DECOYS
R_a == ScalarMul(keys.r_a, G)
R_prime_a == ScalarMul(keys.r_a, hash_point_to_point(Ring[1]))

-----------------------------------------------------------------------------
(* Alice *)

(***************************************************************************)
(* Alice0::new with the OsRng draws fake_responses and alpha_a.           *)
(***************************************************************************)
Alice0_new(fake_responses, alpha_a) ==
    LET H_p_pk == hash_point_to_point(Ring[1])
    IN  [ phase |-> "A0", fake_responses |-> fake_responses, alpha_a |-> alpha_a,
          H_p_pk |-> H_p_pk, I_a |-> ScalarMul(keys.s_prime_a, H_p_pk),
          I_hat_a |-> ScalarMul(alpha_a, H_p_pk), T_a |-> ScalarMul(alpha_a, G) ]

(***************************************************************************)
(* Alice0::next_message, r being DleqProof::new's nonce.                  *)
(***************************************************************************)
Alice0_next_message(a, r) ==
    [ type |-> "M0",
      pi_a |-> DleqProof_new(G, a.T_a, a.H_p_pk, a.I_hat_a, a.alpha_a, r),
      c_a  |-> Commitment_new(a.fake_responses, a.I_a, a.I_hat_a, a.T_a) ]

(***************************************************************************)
(* Mutant of Alice0::receive: foo's <<h_last, h_0>> destructured in the   *)
(* wrong order.                                                            *)
(***************************************************************************)
Alice0_receive_swapped(a, m) ==
    IF ~DleqProof_verify(m.pi_b, G, m.T_b, a.H_p_pk, m.I_hat_b)
    THEN [phase |-> "Failed"]
    ELSE LET hs == foo(a.fake_responses, Ring, a.T_a, m.T_b, R_a, a.I_hat_a, m.I_hat_b,
                       R_prime_a, a.I_a, m.I_b, MSG)
         IN  [ phase |-> "A1", fake_responses |-> a.fake_responses, h_0 |-> hs[1],
               I_b |-> m.I_b, s_0_a |-> ScalarSub(a.alpha_a, ScalarTimes(hs[2], keys.s_prime_a)),
               I_a |-> a.I_a, I_hat_a |-> a.I_hat_a, T_a |-> a.T_a ]

(***************************************************************************)
(* Alice0::receive(Message1): verify pi_b against (G, T_b, H_p_pk,        *)
(* I_hat_b) or fail; compute h_0, h_last and s_0_a = alpha_a - h_last s'_a. *)
(***************************************************************************)
Alice0_receive(a, m) ==
    IF ~DleqProof_verify(m.pi_b, G, m.T_b, a.H_p_pk, m.I_hat_b)
    THEN [phase |-> "Failed"]
    ELSE LET hs == foo(a.fake_responses, Ring, a.T_a, m.T_b, R_a, a.I_hat_a, m.I_hat_b,
                       R_prime_a, a.I_a, m.I_b, MSG)
         IN  [ phase |-> "A1", fake_responses |-> a.fake_responses, h_0 |-> hs[2],
               I_b |-> m.I_b, s_0_a |-> ScalarSub(a.alpha_a, ScalarTimes(hs[1], keys.s_prime_a)),
               I_a |-> a.I_a, I_hat_a |-> a.I_hat_a, T_a |-> a.T_a ]

(***************************************************************************)
(* Alice1::next_message: the opening of the commitment, and s_0_a.        *)
(***************************************************************************)
Alice1_next_message(a) ==
    [ type |-> "M2",
      d_a  |-> [fake_responses |-> a.fake_responses, I_a |-> a.I_a,
                I_hat_a |-> a.I_hat_a, T_a |-> a.T_a],
      s_0_a |-> a.s_0_a ]

(***************************************************************************)
(* Alice1::receive(Message3): assemble the adaptor signature, I = I_a+I_b. *)
(***************************************************************************)
Alice1_receive(a, m) ==
    [ phase |-> "A2",
      adaptor_sig |-> [s_0_a |-> a.s_0_a, s_0_b |-> m.s_0_b,
                       fake_responses |-> a.fake_responses, h_0 |-> a.h_0,
                       I |-> PointAdd(a.I_a, a.I_b)] ]

-----------------------------------------------------------------------------
(* Bob *)

(***************************************************************************)
(* Bob0::new with the OsRng draw alpha_b.                                 *)
(***************************************************************************)
Bob0_new(alpha_b) ==
    LET H_p_pk == hash_point_to_point(Ring[1])
    IN  [ phase |-> "B0", alpha_b |-> alpha_b, H_p_pk |-> H_p_pk,
          I_b |-> ScalarMul(keys.s_b, H_p_pk), I_hat_b |-> ScalarMul(alpha_b, H_p_pk),
          T_b |-> ScalarMul(alpha_b, G) ]

(***************************************************************************)
(* Bob0::receive(Message0): keep pi_a and c_a unverified.                 *)
(***************************************************************************)
Bob0_receive(b, m) ==
    [ phase |-> "B1", alpha_b |-> b.alpha_b, H_p_pk |-> b.H_p_pk, I_b |-> b.I_b,
      I_hat_b |-> b.I_hat_b, T_b |-> b.T_b, pi_a |-> m.pi_a, c_a |-> m.c_a ]

(***************************************************************************)
(* Bob1::next_message, r being DleqProof::new's nonce.                    *)
(***************************************************************************)
Bob1_next_message(b, r) ==
    [ type |-> "M1", I_b |-> b.I_b, T_b |-> b.T_b, I_hat_b |-> b.I_hat_b,
      pi_b |-> DleqProof_new(G, b.T_b, b.H_p_pk, b.I_hat_b, b.alpha_b, r) ]

(***************************************************************************)
(* Bob1::receive(Message2): open the commitment or fail, verify pi_a      *)
(* against the opened T_a, I_hat_a or fail, compute h_0, h_last and       *)
(* s_0_b = alpha_b - h_last s_b, assemble the adaptor signature with the  *)
(* received s_0_a and I = I_a + I_b.                                       *)
(***************************************************************************)
Bob1_receive(b, m) ==
    LET opened == Opening_open(m.d_a, b.c_a)
        d == opened.val
    IN  IF ~opened.ok \/ ~DleqProof_verify(b.pi_a, G, d.T_a, b.H_p_pk, d.I_hat_a)
        THEN [phase |-> "Failed"]
        ELSE LET hs == foo(d.fake_responses, Ring, d.T_a, b.T_b, R_a, d.I_hat_a, b.I_hat_b,
                           R_prime_a, d.I_a, b.I_b, MSG)
                 s_0_b == ScalarSub(b.alpha_b, ScalarTimes(hs[1], keys.s_b))
             IN  [ phase |-> "B2", s_0_b |-> s_0_b,
                   adaptor_sig |-> [s_0_a |-> m.s_0_a, s_0_b |-> s_0_b,
                                    fake_responses |-> d.fake_responses, h_0 |-> hs[2],
                                    I |-> PointAdd(d.I_a, b.I_b)] ]

(***************************************************************************)
(* Bob2::next_message.                                                     *)
(***************************************************************************)
Bob2_next_message(b) == [type |-> "M3", s_0_b |-> b.s_0_b]

-----------------------------------------------------------------------------
(* The faulty peer *)

(***************************************************************************)
(* The fields of each message a faulty peer may change, and the change:   *)
(* the field is moved by one; for a proof its s, for the commitment the   *)
(* T_a inside it, for the opening its first fake response, which only the  *)
(* commitment covers.                                                      *)
(***************************************************************************)
FieldsOf(type) ==
    CASE type = "M0" -> {"c_a", "pi_a"}
      [] type = "M1" -> {"I_b", "T_b", "I_hat_b", "pi_b"}
      [] type = "M2" -> {"d_a", "s_0_a"}
      [] type = "M3" -> {"s_0_b"}

Altered(m, f) ==
    CASE f \in {"pi_a", "pi_b"} -> [m EXCEPT ![f].s = ScalarAdd(@, 1)]
      [] f = "c_a"              -> [m EXCEPT !.c_a.digest[4] = ScalarAdd(@, 1)]
      [] f = "d_a"              -> [m EXCEPT !.d_a.fake_responses[1] = ScalarAdd(@, 1)]
      [] OTHER                  -> [m EXCEPT ![f] = ScalarAdd(@, 1)]

InFlight == msgs \cup forged

-----------------------------------------------------------------------------
(* The specification *)

Init ==
    /\ keys \in [s_prime_a : Secrets, s_b : Secrets, r_a : Secrets]
    /\ alice = [phase |-> "Idle"]
    /\ bob = [phase |-> "Idle"]
    /\ msgs = {}
    /\ forged = {}
    /\ published = NoSig

AliceNew ==
    /\ alice.phase = "Idle"
    /\ \E fake \in [1..(RING_SIZE - 1) -> Nonces], alpha \in Nonces :
          alice' = Alice0_new(fake, alpha)
    /\ UNCHANGED <<keys, bob, msgs, forged, published>>

AliceSendM0 ==
    /\ alice.phase = "A0"
    /\ \E r \in Nonces : msgs' = msgs \cup {Alice0_next_message(alice, r)}
    /\ UNCHANGED <<keys, alice, bob, forged, published>>

AliceReceiveM1 ==
    /\ alice.phase = "A0"
    /\ \E m \in InFlight : m.type = "M1" /\ alice' = Alice0_receive(alice, m)
    /\ UNCHANGED <<keys, bob, msgs, forged, published>>

AliceSendM2 ==
    /\ alice.phase = "A1"
    /\ msgs' = msgs \cup {Alice1_next_message(alice)}
    /\ UNCHANGED <<keys, alice, bob, forged, published>>

AliceReceiveM3 ==
    /\ alice.phase = "A1"
    /\ \E m \in InFlight : m.type = "M3" /\ alice' = Alice1_receive(alice, m)
    /\ UNCHANGED <<keys, bob, msgs, forged, published>>

(***************************************************************************)
(* Alice's embedding adapts her adaptor signature with y = r_a and         *)
(* publishes the Monero signature.                                         *)
(***************************************************************************)
AlicePublish ==
    /\ alice.phase = "A2"
    /\ published = NoSig
    /\ published' = adapt(alice.adaptor_sig, keys.r_a)
    /\ UNCHANGED <<keys, alice, bob, msgs, forged>>

BobNew ==
    /\ bob.phase = "Idle"
    /\ \E alpha \in Nonces : bob' = Bob0_new(alpha)
    /\ UNCHANGED <<keys, alice, msgs, forged, published>>

BobReceiveM0 ==
    /\ bob.phase = "B0"
    /\ \E m \in InFlight : m.type = "M0" /\ bob' = Bob0_receive(bob, m)
    /\ UNCHANGED <<keys, alice, msgs, forged, published>>

BobSendM1 ==
    /\ bob.phase = "B1"
    /\ \E r \in Nonces : msgs' = msgs \cup {Bob1_next_message(bob, r)}
    /\ UNCHANGED <<keys, alice, bob, forged, published>>

BobReceiveM2 ==
    /\ bob.phase = "B1"
    /\ \E m \in InFlight : m.type = "M2" /\ bob' = Bob1_receive(bob, m)
    /\ UNCHANGED <<keys, alice, msgs, forged, published>>

BobSendM3 ==
    /\ bob.phase = "B2"
    /\ msgs' = msgs \cup {Bob2_next_message(bob)}
    /\ UNCHANGED <<keys, alice, bob, forged, published>>

PeerAlters ==
    /\ \E m \in msgs, f \in TamperFields :
          /\ f \in FieldsOf(m.type)
          /\ forged' = forged \cup {Altered(m, f)}
    /\ UNCHANGED <<keys, alice, bob, msgs, published>>

Next ==
    \/ AliceNew \/ AliceSendM0 \/ AliceReceiveM1 \/ AliceSendM2 \/ AliceReceiveM3
    \/ AlicePublish
    \/ BobNew \/ BobReceiveM0 \/ BobSendM1 \/ BobReceiveM2 \/ BobSendM3
    \/ PeerAlters

Spec == Init /\ [][Next]_vars

(***************************************************************************)
(* The embedding keeps calling: whenever some step of Alice or Bob can    *)
(* change the state, one eventually does (weak fairness of the protocol's *)
(* steps together; the faulty peer is not fair).                           *)
(***************************************************************************)
ProtocolStep ==
    \/ AliceNew \/ AliceSendM0 \/ AliceReceiveM1 \/ AliceSendM2 \/ AliceReceiveM3
    \/ AlicePublish
    \/ BobNew \/ BobReceiveM0 \/ BobSendM1 \/ BobReceiveM2 \/ BobSendM3

Fairness == WF_vars(ProtocolStep)

FairSpec == Spec /\ Fairness

-----------------------------------------------------------------------------
(* Refinement of AdaptorSwap *)

(***************************************************************************)
(* A party's adaptor signature as AdaptorSwap sees it: the one Alice2 or  *)
(* Bob2 holds, FailedSig once a receive returned Err, NoSig before.       *)
(* Bob learns y by subtracting his s_0_a and s_0_b from the published     *)
(* last response (spec.md "extract").                                      *)
(***************************************************************************)
FailedSig == [failed |-> TRUE]

AbstractSig(party, done) ==
    CASE party.phase = done     -> party.adaptor_sig
      [] party.phase = "Failed" -> FailedSig
      [] OTHER                  -> NoSig

Extracted ==
    IF published # NoSig /\ bob.phase = "B2"
    THEN ScalarSub(ScalarSub(Last(published.responses), bob.adaptor_sig.s_0_a),
                   bob.adaptor_sig.s_0_b)
    ELSE NoSig

Swap == INSTANCE AdaptorSwap
            WITH ring <- Ring, y <- keys.r_a,
                 aSig <- AbstractSig(alice, "A2"), bSig <- AbstractSig(bob, "B2"),
                 published <- published, learned <- Extracted

-----------------------------------------------------------------------------
(* Properties *)

Sig == [s_0_a : Scalars, s_0_b : Scalars, fake_responses : [1..(RING_SIZE - 1) -> Scalars],
        h_0 : Scalars, I : Points]

TypeOK ==
    /\ keys \in [s_prime_a : Secrets, s_b : Secrets, r_a : Secrets]
    /\ alice.phase \in {"Idle", "A0", "A1", "A2", "Failed"}
    /\ alice.phase = "A2" => alice.adaptor_sig \in Sig
    /\ bob.phase \in {"Idle", "B0", "B1", "B2", "Failed"}
    /\ bob.phase = "B2" => bob.adaptor_sig \in Sig /\ bob.s_0_b = bob.adaptor_sig.s_0_b
    /\ \A m \in InFlight : m.type \in {"M0", "M1", "M2", "M3"}
    /\ published # NoSig => published.responses \in [1..RING_SIZE -> Scalars]

(***************************************************************************)
(* Round trip (spec 8.1): a signature Alice's embedding publishes, the    *)
(* adaptation by r_a of the adaptor signature Alice0/Alice1 built from     *)
(* Bob's s_0_b, is accepted by Signature::verify over the same ring and    *)
(* message.                                                                *)
(***************************************************************************)
RoundTrip == published # NoSig => verify(published, Ring, MSG)

(***************************************************************************)
(* Extractability (spec 8.2) from Bob's side: once Alice has published a  *)
(* signature and Bob holds his adaptor signature, the last response of    *)
(* the published signature minus Bob's s_0_a and s_0_b is r_a, the secret *)
(* Bob needs on the Bitcoin side.                                          *)
(***************************************************************************)
BobExtractsWitness ==
    (published # NoSig /\ bob.phase = "B2")
        => ScalarSub(ScalarSub(Last(published.responses), bob.adaptor_sig.s_0_a),
                        bob.adaptor_sig.s_0_b)
              = keys.r_a

(***************************************************************************)
(* The protocol implements AdaptorSwap: Bob's adaptor signature comes      *)
(* first and Alice's equals it, every signature Alice publishes verifies,  *)
(* and publishing reveals exactly r_a to Bob, whatever order the messages *)
(* arrive in and whatever (checked) field a faulty peer alters.           *)
(***************************************************************************)
SwapRefined == Swap!Spec

(***************************************************************************)
(* With honest parties and every step taken in time, Alice's embedding    *)
(* eventually publishes the adapted signature.                            *)
(***************************************************************************)
EventuallyPublished == <>(published # NoSig)

=============================================================================
