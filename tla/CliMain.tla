------------------------------ MODULE CliMain -------------------------------
(***************************************************************************)
(* main of the swap CLI (src/swap/src/bin/swap_cli.rs): the set-up every   *)
(* command shares, the five command arms, the event loop task that        *)
(* buy-xmr and resume spawn, and the tokio::select! that races it against *)
(* the swap.  buy-xmr runs determine_btc_to_swap in between, composed     *)
(* here from DetermineBtc, while the event loop runs beside it: a quote   *)
(* request to an event loop that has ended fails.                          *)
(*                                                                         *)
(* EventLoop::run, bob::run, bob::cancel and bob::refund are not in this   *)
(* tree; each is a future that ends with one of the results its type      *)
(* allows, at any time.  Every `?` on a call to the database, the wallets *)
(* or the builder is a disjunct that returns Err, taken when Failures.    *)
(***************************************************************************)
EXTENDS Naturals

CONSTANTS
    Quotes, MAX_FUNDS, MAX_DEPOSITS, FEE, DUST, Failures,
    Commands,          \* the subcommands a user may give
    EventLoopResults   \* how the spawned event loop task may end

VARIABLES
    funds, deposits, pc, maxQuantity, initial, giveable, amount,
    cmd,     \* the subcommand being run, or "none" before dispatch
    stage,   \* the point main has reached
    evloop,  \* the event loop task: "none", "running" or how it ended
    swap,    \* the bob::run future: "none", "running", "ok" or "err"
    exit     \* what main returned: "none", "ok" or "err"

D == INSTANCE DetermineBtc

mainVars == <<cmd, stage, evloop, swap, exit>>
allVars == <<funds, deposits, pc, maxQuantity, initial, giveable, amount,
             cmd, stage, evloop, swap, exit>>

SwapCommands == {"buy_xmr", "resume"}

(***************************************************************************)
(* A `?` or bail! returns Err from main.                                   *)
(***************************************************************************)
Bail ==
    /\ exit' = "err"
    /\ stage' = "exit"

-----------------------------------------------------------------------------
(* The main task *)

(***************************************************************************)
(* Config, database, seed, monero-wallet-rpc: each step may fail.         *)
(***************************************************************************)
Setup ==
    /\ stage = "setup"
    /\ \/ stage' = "dispatch" /\ UNCHANGED exit
       \/ Failures /\ Bail
    /\ UNCHANGED <<cmd, evloop, swap>>

(***************************************************************************)
(* match args.cmd; buy-xmr and resume first bail on an address of another *)
(* network than Stagenet, history reads the database without wallets.     *)
(***************************************************************************)
Dispatch ==
    /\ stage = "dispatch"
    /\ \E c \in Commands :
          /\ cmd' = c
          /\ \/ c = "history" /\ stage' = "history" /\ UNCHANGED exit
             \/ c # "history" /\ stage' = "wallets" /\ UNCHANGED exit
             \/ c \in SwapCommands /\ Bail
    /\ UNCHANGED <<evloop, swap>>

(***************************************************************************)
(* init_bitcoin_wallet (Wallet::new and a sync) and, for a swap,           *)
(* init_monero_wallet.                                                     *)
(***************************************************************************)
InitWallets ==
    /\ stage = "wallets"
    /\ \/ /\ stage' = IF cmd \in SwapCommands THEN "event_loop" ELSE "load_state"
          /\ UNCHANGED exit
       \/ Failures /\ Bail
    /\ UNCHANGED <<cmd, evloop, swap>>

(***************************************************************************)
(* EventLoop::new(...)? and tokio::spawn(event_loop.run()).               *)
(***************************************************************************)
SpawnEventLoop ==
    /\ stage = "event_loop"
    /\ \/ /\ evloop' = "running"
          /\ stage' = IF cmd = "buy_xmr" THEN "determine" ELSE "build"
          /\ UNCHANGED exit
       \/ Failures /\ Bail /\ UNCHANGED evloop
    /\ UNCHANGED <<cmd, swap>>

(***************************************************************************)
(* determine_btc_to_swap(...).await?: the step that returns from it.       *)
(***************************************************************************)
DetermineReturns ==
    /\ stage = "determine"
    /\ \/ pc = "done" /\ stage' = "build" /\ UNCHANGED exit
       \/ pc = "failed" /\ Bail
    /\ UNCHANGED <<cmd, evloop, swap>>

(***************************************************************************)
(* Builder::new(...).build()? and bob::run(swap): the swap future.        *)
(***************************************************************************)
BuildSwap ==
    /\ stage = "build"
    /\ \/ swap' = "running" /\ stage' = "select" /\ UNCHANGED exit
       \/ Failures /\ Bail /\ UNCHANGED swap
    /\ UNCHANGED <<cmd, evloop>>

(***************************************************************************)
(* Mutant of Select: the event loop's result unwrapped once (`?`), so its *)
(* Err is dropped and main returns Ok.                                     *)
(***************************************************************************)
Select_event_loop_unwrapped ==
    /\ stage = "select"
    /\ \/ evloop \in EventLoopResults /\ exit' = IF evloop = "panic" THEN "err" ELSE "ok"
       \/ swap \in {"ok", "err"} /\ exit' = swap
    /\ stage' = "exit"
    /\ UNCHANGED <<cmd, evloop, swap>>

(***************************************************************************)
(* tokio::select! over the event loop's JoinHandle and the swap: it takes *)
(* a branch whose future is ready, either one when both are.  The event   *)
(* loop's branch returns Err (event_loop_result??) whether the task ended *)
(* with Err or panicked; the swap's returns the swap's result.            *)
(***************************************************************************)
Select ==
    /\ stage = "select"
    /\ \/ evloop \in EventLoopResults /\ exit' = "err"
       \/ swap \in {"ok", "err"} /\ exit' = swap
    /\ stage' = "exit"
    /\ UNCHANGED <<cmd, evloop, swap>>

(***************************************************************************)
(* history: db.all()? and the table printed.                              *)
(***************************************************************************)
History ==
    /\ stage = "history"
    /\ \/ exit' = "ok" /\ stage' = "exit"
       \/ Failures /\ Bail
    /\ UNCHANGED <<cmd, evloop, swap>>

(***************************************************************************)
(* cancel and refund: db.get_state(swap_id)?.try_into_bob()?, which fails *)
(* for an unknown swap id or one of Alice's.                               *)
(***************************************************************************)
LoadState ==
    /\ stage = "load_state"
    /\ \/ stage' = cmd /\ UNCHANGED exit
       \/ Bail
    /\ UNCHANGED <<cmd, evloop, swap>>

(***************************************************************************)
(* bob::cancel(...).await?: an Err returns Err; each CancelError is       *)
(* logged and main returns Ok.                                             *)
(***************************************************************************)
Cancel ==
    /\ stage = "cancel"
    /\ \E r \in {"published", "timelock_not_expired", "already_published", "err"} :
          exit' = IF r = "err" THEN "err" ELSE "ok"
    /\ stage' = "exit"
    /\ UNCHANGED <<cmd, evloop, swap>>

(***************************************************************************)
(* bob::refund(...).await??.                                               *)
(***************************************************************************)
Refund ==
    /\ stage = "refund"
    /\ exit' \in {"ok", "err"}
    /\ stage' = "exit"
    /\ UNCHANGED <<cmd, evloop, swap>>

-----------------------------------------------------------------------------
(* The spawned tasks *)

(***************************************************************************)
(* The event loop task ends, with Err or a panic, at any time.            *)
(***************************************************************************)
EventLoopEnds ==
    /\ evloop = "running"
    /\ evloop' \in EventLoopResults
    /\ UNCHANGED <<cmd, stage, swap, exit>>

(***************************************************************************)
(* bob::run(swap) returns.                                                 *)
(***************************************************************************)
SwapReturns ==
    /\ swap = "running"
    /\ swap' \in {"ok", "err"}
    /\ UNCHANGED <<cmd, stage, evloop, exit>>

-----------------------------------------------------------------------------
(* determine_btc_to_swap, run by main while the event loop runs *)

(***************************************************************************)
(* event_loop_handle.request_quote() asks the event loop; once the task   *)
(* has ended its channel is closed and the request returns Err.           *)
(***************************************************************************)
RequestQuote ==
    /\ stage = "determine"
    /\ \/ evloop = "running" /\ D!request_quote
       \/ evloop \in EventLoopResults /\ pc = "quote" /\ D!CallFails
    /\ UNCHANGED mainVars

(***************************************************************************)
(* The other awaited calls of determine_btc_to_swap go to the wallet.      *)
(***************************************************************************)
DetermineStep ==
    /\ stage = "determine"
    /\ \/ D!initial_balance
       \/ D!get_new_address
       \/ D!wait_for_deposit
       \/ D!determine_btc_to_swap
    /\ UNCHANGED mainVars

UserDeposits == D!Deposit /\ UNCHANGED mainVars

-----------------------------------------------------------------------------

Init ==
    /\ D!Init
    /\ cmd = "none"
    /\ stage = "setup"
    /\ evloop = "none"
    /\ swap = "none"
    /\ exit = "none"

MainStep ==
    \/ Setup \/ Dispatch \/ InitWallets \/ SpawnEventLoop \/ DetermineReturns
    \/ BuildSwap \/ Select \/ History \/ LoadState \/ Cancel \/ Refund

MainStepUnchangedDetermine ==
    MainStep /\ UNCHANGED <<funds, deposits, pc, maxQuantity, initial, giveable, amount>>

TaskStep ==
    (EventLoopEnds \/ SwapReturns)
    /\ UNCHANGED <<funds, deposits, pc, maxQuantity, initial, giveable, amount>>

Next ==
    \/ MainStepUnchangedDetermine
    \/ TaskStep
    \/ RequestQuote
    \/ DetermineStep
    \/ UserDeposits

Spec == Init /\ [][Next]_allVars

-----------------------------------------------------------------------------
(* Properties *)

TypeOK ==
    /\ D!TypeOK
    /\ cmd \in Commands \cup {"none"}
    /\ stage \in {"setup", "dispatch", "wallets", "event_loop", "determine", "build",
                  "select", "history", "load_state", "cancel", "refund", "exit"}
    /\ evloop \in {"none", "running"} \cup EventLoopResults
    /\ swap \in {"none", "running", "ok", "err"}
    /\ exit \in {"none", "ok", "err"}

(***************************************************************************)
(* buy-xmr and resume return Ok only after bob::run has returned Ok: the  *)
(* select! never reports an ended event loop, or a failed swap, as        *)
(* success.                                                                *)
(***************************************************************************)
OkOnlyAfterSwap == (exit = "ok" /\ cmd \in SwapCommands) => swap = "ok"

(***************************************************************************)
(* A swap that bob::run completed is reported as a success: main returns  *)
(* Ok whenever it returns after bob::run returned Ok.                      *)
(***************************************************************************)
SwapOkReported == (exit # "none" /\ swap = "ok") => exit = "ok"

=============================================================================
