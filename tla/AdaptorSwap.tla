---------------------------- MODULE AdaptorSwap -----------------------------
(***************************************************************************)
(* What the adaptor-signature protocol promises the swap (spec.md sections *)
(* 6 to 8), without the messages: each party either ends holding an        *)
(* adaptor signature or fails; Bob holds his before Alice, and Alice's is  *)
(* the same one; what Alice publishes is a ring signature that verifies on *)
(* the ring and the message; and publishing it reveals the witness y to a *)
(* Bob who holds the adaptor signature, and nothing else.                 *)
(*                                                                         *)
(* An adaptor signature is a value of any shape; NoSig and FailedSig are   *)
(* the two values that mean "none yet" and "the protocol failed here".    *)
(***************************************************************************)
EXTENDS MoneroAdaptor

CONSTANT MSG

VARIABLES
    ring,       \* the ring the signature is over
    y,          \* the witness (r_a) the adaptor is offset by
    aSig,       \* Alice's adaptor signature, NoSig or FailedSig
    bSig,       \* Bob's adaptor signature, NoSig or FailedSig
    published,  \* the signature Alice published, or NoSig
    learned     \* what Bob has learned of y, or NoSig

avars == <<ring, y, aSig, bSig, published, learned>>

NoSig == [none |-> TRUE]
FailedSig == [failed |-> TRUE]

Holds(s) == s \notin {NoSig, FailedSig}

Init ==
    /\ aSig = NoSig
    /\ bSig = NoSig
    /\ published = NoSig
    /\ learned = NoSig

(***************************************************************************)
(* Bob assembles his adaptor signature, or fails.                         *)
(***************************************************************************)
BobAssembles ==
    /\ bSig = NoSig
    /\ bSig' # NoSig
    /\ UNCHANGED <<ring, y, aSig, published, learned>>

(***************************************************************************)
(* Alice assembles hers, which is Bob's, or fails.                        *)
(***************************************************************************)
AliceAssembles ==
    /\ aSig = NoSig
    /\ \/ aSig' = FailedSig
       \/ Holds(bSig) /\ aSig' = bSig
    /\ UNCHANGED <<ring, y, bSig, published, learned>>

(***************************************************************************)
(* Alice publishes a signature valid on the ring; a Bob who holds the     *)
(* adaptor signature learns y from it.                                     *)
(***************************************************************************)
Publish ==
    /\ Holds(aSig)
    /\ published = NoSig
    /\ published' # NoSig
    /\ verify(published', ring, MSG)
    /\ learned' = IF Holds(bSig) THEN y ELSE NoSig
    /\ UNCHANGED <<ring, y, aSig, bSig>>

Next == BobAssembles \/ AliceAssembles \/ Publish

Spec == Init /\ [][Next]_avars

=============================================================================
