--------------------------- MODULE FinalityWait ----------------------------
(***************************************************************************)
(* Wallet::wait_for_transaction_finality (src/swap/src/bitcoin/wallet.rs)  *)
(* and the two polls it makes each round, against a Bitcoin chain that     *)
(* grows and may drop its top block in a reorganisation.                   *)
(*                                                                         *)
(* Each round reads the transaction's block height through                 *)
(* transaction_block_height (GET tx/<id>/status, retried every second while *)
(* the request fails or the transaction is unconfirmed), then the tip      *)
(* through get_block_height (GET blocks/tip/height, retried every second   *)
(* on any error), and stops once tip - tx height >= the finality depth.    *)
(* The two reads are separate requests, so the chain may change between    *)
(* them.  One action is one request with the answer it gets.  A request   *)
(* that fails and is retried after the one-second backoff (an I/O error,  *)
(* an unparsable tip, a transaction not yet mined) leaves the state as it  *)
(* was: it is a stuttering step, and retries never end.                    *)
(*                                                                         *)
(* Heights are u32 in BlockHeight; the model gives them HEIGHT_BITS bits   *)
(* so that a subtraction below zero wraps as it does in a release build.   *)
(***************************************************************************)
EXTENDS Integers

CONSTANTS
    FINALITY,          \* execution_params.bitcoin_finality_confirmations
    START_HEIGHT,      \* the tip when the wait starts
    MAX_HEIGHT,        \* bound on the chain's growth
    MAX_REORGS,        \* bound on the number of top blocks dropped
    HEIGHT_BITS,       \* width of a BlockHeight in the model (32 in the code)
    MalformedBodies    \* TRUE when tx/<id>/status may answer a body that is not JSON

ASSUME FINALITY \in Nat /\ START_HEIGHT \in Nat /\ MAX_HEIGHT >= START_HEIGHT
ASSUME MAX_REORGS \in Nat /\ HEIGHT_BITS \in Nat \ {0} /\ MAX_HEIGHT < 2^HEIGHT_BITS
ASSUME MalformedBodies \in BOOLEAN

VARIABLES
    tip,        \* height of the chain's tip
    txAt,       \* height of the block holding the transaction, or Unmined
    reorgs,     \* number of top blocks dropped so far
    pc,         \* where the wait is: "status", "tip", "done", "panicked"
    txHeight    \* the tx block height the current round read

vars == <<tip, txAt, reorgs, pc, txHeight>>

Unmined == -1

-----------------------------------------------------------------------------
(* The chain *)

(***************************************************************************)
(* A block is mined; the transaction, broadcast before the wait, is in    *)
(* the mempool whenever it is not in the chain and is taken into the next *)
(* block.                                                                  *)
(***************************************************************************)
MineBlock ==
    /\ tip < MAX_HEIGHT
    /\ tip' = tip + 1
    /\ txAt' = IF txAt = Unmined THEN tip + 1 ELSE txAt
    /\ UNCHANGED <<reorgs, pc, txHeight>>

(***************************************************************************)
(* The top block is dropped; a transaction in it is unconfirmed again.    *)
(***************************************************************************)
DropTopBlock ==
    /\ reorgs < MAX_REORGS
    /\ tip > 0
    /\ tip' = tip - 1
    /\ txAt' = IF txAt = tip THEN Unmined ELSE txAt
    /\ reorgs' = reorgs + 1
    /\ UNCHANGED <<pc, txHeight>>

-----------------------------------------------------------------------------
(* The wallet *)

(***************************************************************************)
(* BlockHeight's u32 subtraction.  A release build wraps below zero; a    *)
(* debug build panics on the overflow: the set of outcomes the build can   *)
(* produce, the panic written as NoHeight.                                 *)
(***************************************************************************)
NoHeight == -1

HeightSub(a, b) ==
    IF a >= b THEN {a - b} ELSE {(a + 2^HEIGHT_BITS) - b, NoHeight}

(***************************************************************************)
(* Mutant of transaction_block_height: block_height taken without the     *)
(* NotYetMined check, an unconfirmed transaction read as its "no height". *)
(***************************************************************************)
transaction_block_height_unchecked ==
    /\ pc = "status"
    /\ txHeight' = txAt
    /\ pc' = "tip"
    /\ UNCHANGED <<tip, txAt, reorgs>>

(***************************************************************************)
(* transaction_block_height, one request of its retry loop.  An I/O error *)
(* or block_height = None (not yet mined) is Transient and retried; the   *)
(* answer's body failing to deserialise as TransactionStatus is Permanent, *)
(* so the retry returns Err and .expect("transient errors to be retried") *)
(* panics; otherwise the height is the round's tx height.                 *)
(***************************************************************************)
transaction_block_height ==
    /\ pc = "status"
    /\ \/ /\ txAt # Unmined
          /\ txHeight' = txAt
          /\ pc' = "tip"
       \/ /\ MalformedBodies
          /\ pc' = "panicked"
          /\ UNCHANGED txHeight
    /\ UNCHANGED <<tip, txAt, reorgs>>

(***************************************************************************)
(* Mutants of wait_for_transaction_finality: the transaction's own block  *)
(* counted as a confirmation; a strict comparison.                        *)
(***************************************************************************)
wait_counting_own_block ==
    /\ pc = "tip"
    /\ \E confirmations \in HeightSub(tip, txHeight) :
          pc' = CASE confirmations = NoHeight      -> "panicked"
                  [] confirmations + 1 >= FINALITY -> "done"
                  [] OTHER                         -> "status"
    /\ UNCHANGED <<tip, txAt, reorgs, txHeight>>

wait_strictly_above ==
    /\ pc = "tip"
    /\ \E confirmations \in HeightSub(tip, txHeight) :
          pc' = CASE confirmations = NoHeight   -> "panicked"
                  [] confirmations > FINALITY   -> "done"
                  [] OTHER                      -> "status"
    /\ UNCHANGED <<tip, txAt, reorgs, txHeight>>

(***************************************************************************)
(* get_block_height answers the tip, and wait_for_transaction_finality    *)
(* computes confirmations = tip - tx height and either breaks out of its  *)
(* loop or ticks and starts the next round.                               *)
(***************************************************************************)
wait_for_transaction_finality ==
    /\ pc = "tip"
    /\ \E confirmations \in HeightSub(tip, txHeight) :
          pc' = CASE confirmations = NoHeight   -> "panicked"
                  [] confirmations >= FINALITY  -> "done"
                  [] OTHER                      -> "status"
    /\ UNCHANGED <<tip, txAt, reorgs, txHeight>>

-----------------------------------------------------------------------------

Init ==
    /\ tip = START_HEIGHT
    /\ txAt = Unmined
    /\ reorgs = 0
    /\ pc = "status"
    /\ txHeight = 0

Next ==
    \/ MineBlock
    \/ DropTopBlock
    \/ transaction_block_height
    \/ wait_for_transaction_finality

(***************************************************************************)
(* Fairness: blocks keep being mined (up to the bound), and the esplora   *)
(* server answers a request of each poll sooner or later: the retries     *)
(* never give up, so a server that comes back is eventually heard.        *)
(***************************************************************************)
Fairness ==
    /\ WF_vars(MineBlock)
    /\ WF_vars(transaction_block_height)
    /\ WF_vars(wait_for_transaction_finality)

Spec == Init /\ [][Next]_vars /\ Fairness

-----------------------------------------------------------------------------
(* Properties *)

TypeOK ==
    /\ tip \in 0..MAX_HEIGHT
    /\ txAt \in 0..MAX_HEIGHT \cup {Unmined}
    /\ reorgs \in 0..MAX_REORGS
    /\ pc \in {"status", "tip", "done", "panicked"}
    /\ txHeight \in 0..MAX_HEIGHT

(***************************************************************************)
(* When wait_for_transaction_finality returns Ok, the transaction is in   *)
(* the chain and at least FINALITY blocks lie above its block (the code's *)
(* own count, tip - tx height), on the chain as it is then.               *)
(***************************************************************************)
FinalWhenReturned ==
    pc = "done" => (txAt # Unmined /\ tip - txAt >= FINALITY)

(***************************************************************************)
(* The wait never panics: no error of either poll escapes the retries.    *)
(***************************************************************************)
NeverPanics == pc # "panicked"

(***************************************************************************)
(* The wait ends: once the chain has grown far enough the polling loop    *)
(* sees it and stops (returning, or panicking on a build that traps the   *)
(* overflow); it does not poll forever.                                   *)
(***************************************************************************)
EventuallyEnds == <>(pc \in {"done", "panicked"})

=============================================================================
