-------------------------- MODULE MCDetermineBtc ---------------------------
(***************************************************************************)
(* Model-checking instance of DetermineBtc: a wallet of a few units, one  *)
(* quote below and one above what it can hold, a fee of one unit.         *)
(***************************************************************************)
EXTENDS DetermineBtc

MC_Quotes == {2, 6}

=============================================================================
