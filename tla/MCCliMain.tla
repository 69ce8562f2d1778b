----------------------------- MODULE MCCliMain ------------------------------
(***************************************************************************)
(* Model-checking instance of CliMain: every subcommand, the amounts of   *)
(* MCDetermineBtc, and the event loop ending with Err or a panic.          *)
(***************************************************************************)
EXTENDS CliMain

MC_Quotes == {2, 6}

MC_Commands == {"buy_xmr", "history", "resume", "cancel", "refund"}

\* EventLoop::run loops until an error; its Ok is never returned
MC_EventLoopResults == {"err", "panic"}

=============================================================================
