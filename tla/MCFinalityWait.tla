-------------------------- MODULE MCFinalityWait ---------------------------
(***************************************************************************)
(* Model-checking instance of FinalityWait: heights of five bits, so the *)
(* u32 wrap is kept, and a chain that grows a few blocks past the depth.  *)
(***************************************************************************)
EXTENDS FinalityWait

=============================================================================
