---------------------------- MODULE BitcoinWallet ----------------------------
(***************************************************************************)
(* The CLI's bitcoin wallet (src/swap/src/bitcoin/wallet.rs) across       *)
(* process restarts: Wallet::new, new_address, balance, sync_wallet,      *)
(* build_tx_lock_psbt, sign_tx_lock and broadcast_signed_transaction.     *)
(*                                                                         *)
(* Each Wallet::new draws a fresh private key (PrivateKey::                *)
(* generate_default) and opens the sled tree under the same datadir.  The *)
(* key lives only in the process; the tree persists.  P2WPKH(p_key) is a  *)
(* descriptor without a wildcard, so every address the wallet hands out   *)
(* pays that one key: a key, and its address, is the number of the start  *)
(* that drew it.  bdk::Wallet::new stores the checksum of the descriptor  *)
(* in the tree it opens and fails with ChecksumMismatch when the tree     *)
(* holds the checksum of another descriptor.                               *)
(* A coin is a UTXO on the chain; amounts are left out (one coin, one     *)
(* unit), as is the fee rate of create_tx.                                 *)
(***************************************************************************)
EXTENDS Naturals, FiniteSets

CONSTANTS
    MAX_STARTS,   \* how many times the CLI process is started
    Coins,        \* the payments the user may make to the wallet
    Failures      \* TRUE when an I/O call of Wallet::new may fail

VARIABLES
    wallet,   \* "down", "open", or how the last Wallet::new failed
    starts,   \* Wallet::new calls so far; the key drawn by start n is n
    key,      \* the private key of the open wallet, 0 when none
    stored,   \* the key whose descriptor checksum the sled tree holds, 0 if none
    shown,    \* keys whose address new_address handed out
    owner,    \* the key a coin pays, 0 while the user has not paid it
    spent,    \* coins spent by a broadcast transaction
    view,     \* the UTXOs bdk stored at its last sync (persisted)
    inputs,   \* the inputs of the lock PSBT; {} when there is none
    signed    \* whether sign_tx_lock finalized it

vars == <<wallet, starts, key, stored, shown, owner, spent, view, inputs, signed>>

Keys == 1..MAX_STARTS

up == wallet = "open"

-----------------------------------------------------------------------------

(***************************************************************************)
(* sync_wallet: bdk's sync stores the unspent outputs of the descriptor's *)
(* script.                                                                 *)
(***************************************************************************)
Synced == {c \in Coins : owner[c] = key /\ c \notin spent}

(***************************************************************************)
(* Wallet::new.  Client::new's expect panics and the ? of sled::open and  *)
(* generate_default return Err: "io_error", taken when Failures.  Then    *)
(* bdk::Wallet::new over the tree: a tree that holds another descriptor's *)
(* checksum is rejected; otherwise the checksum is stored and the wallet  *)
(* is open.  The key drawn is number starts + 1 either way.               *)
(***************************************************************************)
new ==
    /\ ~up
    /\ starts < MAX_STARTS
    /\ starts' = starts + 1
    /\ \/ Failures /\ wallet' = "io_error" /\ UNCHANGED <<key, stored>>
       \/ stored \notin {0, starts + 1} /\ wallet' = "checksum_mismatch"
          /\ UNCHANGED <<key, stored>>
       \/ stored \in {0, starts + 1} /\ wallet' = "open"
          /\ key' = starts + 1 /\ stored' = key'
    /\ UNCHANGED <<shown, owner, spent, view, inputs, signed>>

(***************************************************************************)
(* The process ends, returning or killed, at any point: the key and the   *)
(* PSBT in memory are gone, the tree stays.                                *)
(***************************************************************************)
Exit ==
    /\ up
    /\ wallet' = "down"
    /\ key' = 0
    /\ inputs' = {}
    /\ signed' = FALSE
    /\ UNCHANGED <<starts, stored, shown, owner, spent, view>>

(***************************************************************************)
(* new_address: get_new_address on the P2WPKH descriptor.                  *)
(***************************************************************************)
new_address ==
    /\ up
    /\ shown' = shown \cup {key}
    /\ UNCHANGED <<wallet, starts, key, stored, owner, spent, view, inputs, signed>>

(***************************************************************************)
(* The user pays a coin to an address some run has shown, whether or not  *)
(* a process is up.                                                        *)
(***************************************************************************)
Deposit ==
    \E c \in Coins, k \in shown :
       /\ owner[c] = 0
       /\ owner' = [owner EXCEPT ![c] = k]
       /\ UNCHANGED <<wallet, starts, key, stored, shown, spent, view, inputs, signed>>

(***************************************************************************)
(* balance: sync_wallet()? then get_balance over the synced UTXOs.        *)
(***************************************************************************)
balance ==
    /\ up
    /\ view' = Synced
    /\ UNCHANGED <<wallet, starts, key, stored, shown, owner, spent, inputs, signed>>

(***************************************************************************)
(* build_tx_lock_psbt: sync_wallet()? then create_tx, whose coin selection *)
(* takes synced UTXOs; with none it fails (insufficient funds).            *)
(***************************************************************************)
build_tx_lock_psbt ==
    /\ up
    /\ inputs = {}
    /\ view' = Synced
    /\ inputs' \in SUBSET view' \ {{}}
    /\ UNCHANGED <<wallet, starts, key, stored, shown, owner, spent, signed>>

(***************************************************************************)
(* sign_tx_lock: sync_wallet()?, sign with the wallet's key, and bail!    *)
(* unless every input was signed (finalized).  A bail leaves the caller   *)
(* without a transaction.                                                  *)
(***************************************************************************)
sign_tx_lock ==
    /\ up
    /\ inputs # {} /\ ~signed
    /\ view' = Synced
    /\ IF \A c \in inputs : owner[c] = key
          THEN signed' = TRUE /\ UNCHANGED inputs
          ELSE inputs' = {} /\ UNCHANGED signed
    /\ UNCHANGED <<wallet, starts, key, stored, shown, owner, spent>>

(***************************************************************************)
(* broadcast_signed_transaction: the electrum server accepts a signed     *)
(* transaction whose inputs are unspent.                                   *)
(***************************************************************************)
broadcast_signed_transaction ==
    /\ up
    /\ signed
    /\ inputs \cap spent = {}
    /\ spent' = spent \cup inputs
    /\ inputs' = {}
    /\ signed' = FALSE
    /\ UNCHANGED <<wallet, starts, key, stored, shown, owner, view>>

-----------------------------------------------------------------------------

Init ==
    /\ wallet = "down"
    /\ starts = 0
    /\ key = 0
    /\ stored = 0
    /\ shown = {}
    /\ owner = [c \in Coins |-> 0]
    /\ spent = {}
    /\ view = {}
    /\ inputs = {}
    /\ signed = FALSE

Next ==
    \/ new \/ Exit \/ new_address \/ Deposit \/ balance
    \/ build_tx_lock_psbt \/ sign_tx_lock \/ broadcast_signed_transaction

Spec == Init /\ [][Next]_vars

-----------------------------------------------------------------------------
(* Properties *)

TypeOK ==
    /\ wallet \in {"down", "open", "io_error", "checksum_mismatch"}
    /\ starts \in 0..MAX_STARTS
    /\ key \in 0..MAX_STARTS
    /\ stored \in 0..MAX_STARTS
    /\ shown \subseteq Keys
    /\ owner \in [Coins -> 0..MAX_STARTS]
    /\ spent \subseteq Coins
    /\ view \subseteq Coins
    /\ inputs \subseteq Coins
    /\ signed \in BOOLEAN

(***************************************************************************)
(* Every CLI command calls init_bitcoin_wallet over the same datadir, and  *)
(* resume, cancel and refund exist to continue a swap in a later process: *)
(* a later start of the CLI opens the wallet an earlier start created     *)
(* unless an I/O call fails.  Only then can a coin paid to an address the *)
(* earlier run showed (the buy-xmr deposit address, swap_cli.rs:328) be   *)
(* seen or spent again.                                                    *)
(***************************************************************************)
WalletReopens == wallet # "checksum_mismatch"

=============================================================================
