--------------------------- MODULE DetermineBtc ----------------------------
(***************************************************************************)
(* determine_btc_to_swap (src/swap/src/bin/swap_cli.rs) as the buy-xmr    *)
(* command calls it: the quote request, the wallet's initial balance, the *)
(* new deposit address, the wait-for-deposit loop written at the call site *)
(* and the maximum giveable amount, one action per await point, against a *)
(* user who may send funds to the wallet at any time.                     *)
(*                                                                         *)
(* Wallet::balance syncs with the electrum server and then reads bdk's     *)
(* balance, so every balance read sees the funds the server knows of.      *)
(* Each awaited call may fail; its ? makes determine_btc_to_swap return    *)
(* Err.  A round of the deposit loop that reads a zero balance syncs and   *)
(* sleeps a second and leaves the state as it was: a stuttering step.     *)
(***************************************************************************)
EXTENDS Naturals

CONSTANTS
    Quotes,        \* max_quantity values the seller may quote, in satoshi units
    MAX_FUNDS,     \* bound on the wallet's funds
    MAX_DEPOSITS,  \* bound on the number of deposits the user makes
    FEE,           \* fee of the lock transaction, deducted by max_giveable
    DUST,          \* the dust limit of a Bitcoin output
    Failures       \* TRUE when an awaited wallet or network call may fail

ASSUME Quotes \subseteq Nat /\ MAX_FUNDS \in Nat /\ MAX_DEPOSITS \in Nat
ASSUME FEE \in Nat /\ DUST \in Nat /\ Failures \in BOOLEAN

VARIABLES
    funds,      \* what the wallet holds, as the electrum server sees it
    deposits,   \* number of deposits made so far
    pc,         \* the await point determine_btc_to_swap is at
    maxQuantity,\* bid_quote.max_quantity
    initial,    \* initial_balance as read
    giveable,   \* max_giveable as read
    amount      \* the returned amount

vars == <<funds, deposits, pc, maxQuantity, initial, giveable, amount>>

Amounts == 0..MAX_FUNDS

Min(a, b) == IF a <= b THEN a ELSE b
Max(a, b) == IF a >= b THEN a ELSE b

-----------------------------------------------------------------------------
(* The user *)

(***************************************************************************)
(* The user sends some funds to the wallet (to the address shown, or one  *)
(* they already knew).                                                     *)
(***************************************************************************)
Deposit ==
    /\ deposits < MAX_DEPOSITS
    /\ \E d \in 1..(MAX_FUNDS - funds) : funds' = funds + d
    /\ deposits' = deposits + 1
    /\ UNCHANGED <<pc, maxQuantity, initial, giveable, amount>>

-----------------------------------------------------------------------------
(* The command *)

(***************************************************************************)
(* An awaited call returns Err: the ? makes determine_btc_to_swap return  *)
(* Err, and buy-xmr with it.                                               *)
(***************************************************************************)
CallFails ==
    /\ Failures
    /\ pc' = "failed"
    /\ UNCHANGED <<funds, deposits, maxQuantity, initial, giveable, amount>>

(***************************************************************************)
(* request_quote.await: the seller's BidQuote, or "failed to request      *)
(* quote".                                                                 *)
(***************************************************************************)
request_quote ==
    /\ pc = "quote"
    /\ \/ /\ \E q \in Quotes : maxQuantity' = q
          /\ pc' = "balance"
          /\ UNCHANGED <<funds, deposits, initial, giveable, amount>>
       \/ CallFails

(***************************************************************************)
(* initial_balance.await: with a zero balance the command asks for a      *)
(* deposit, otherwise it goes on with what the wallet has.                *)
(***************************************************************************)
initial_balance ==
    /\ pc = "balance"
    /\ \/ /\ initial' = funds
          /\ pc' = IF funds = 0 THEN "address" ELSE "giveable"
          /\ UNCHANGED <<funds, deposits, maxQuantity, giveable, amount>>
       \/ CallFails

(***************************************************************************)
(* get_new_address.await, shown to the user with the quote's maximum.     *)
(***************************************************************************)
get_new_address ==
    /\ pc = "address"
    /\ \/ /\ pc' = "deposit"
          /\ UNCHANGED <<funds, deposits, maxQuantity, initial, giveable, amount>>
       \/ CallFails

(***************************************************************************)
(* wait_for_deposit.await: the round of `while balance().await? == ZERO`  *)
(* that reads a non-zero balance ends the loop; the trailing               *)
(* balance().await is only logged.  Either balance read may fail.          *)
(***************************************************************************)
wait_for_deposit ==
    /\ pc = "deposit"
    /\ \/ /\ funds > 0
          /\ pc' = "giveable"
          /\ UNCHANGED <<funds, deposits, maxQuantity, initial, giveable, amount>>
       \/ CallFails

(***************************************************************************)
(* Wallet::max_giveable (not in this tree): the balance less the lock     *)
(* transaction's fee, nothing when the fee is not covered.                *)
(***************************************************************************)
MaxGiveable(balance) == IF balance >= FEE THEN balance - FEE ELSE 0

(***************************************************************************)
(* Mutant of the final step: max for min.                                   *)
(***************************************************************************)
determine_btc_to_swap_max ==
    /\ pc = "giveable"
    /\ giveable' = MaxGiveable(funds)
    /\ amount' = Max(giveable', maxQuantity)
    /\ pc' = "done"
    /\ UNCHANGED <<funds, deposits, maxQuantity, initial>>

(***************************************************************************)
(* max_giveable.await, then Ok(min(max_giveable, max_accepted)).          *)
(***************************************************************************)
determine_btc_to_swap ==
    /\ pc = "giveable"
    /\ \/ /\ giveable' = MaxGiveable(funds)
          /\ amount' = Min(giveable', maxQuantity)
          /\ pc' = "done"
          /\ UNCHANGED <<funds, deposits, maxQuantity, initial>>
       \/ CallFails

-----------------------------------------------------------------------------

Init ==
    /\ funds \in Amounts
    /\ deposits = 0
    /\ pc = "quote"
    /\ maxQuantity = 0
    /\ initial = 0
    /\ giveable = 0
    /\ amount = 0

Next ==
    \/ Deposit
    \/ request_quote
    \/ initial_balance
    \/ get_new_address
    \/ wait_for_deposit
    \/ determine_btc_to_swap

Spec == Init /\ [][Next]_vars

-----------------------------------------------------------------------------
(* Properties *)

TypeOK ==
    /\ funds \in Amounts
    /\ deposits \in 0..MAX_DEPOSITS
    /\ pc \in {"quote", "balance", "address", "deposit", "giveable", "done", "failed"}
    /\ maxQuantity \in Quotes \cup {0}
    /\ initial \in Amounts
    /\ giveable \in Amounts
    /\ amount \in Amounts

=============================================================================
