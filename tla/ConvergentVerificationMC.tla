---------------------- MODULE ConvergentVerificationMC ----------------------
(***************************************************************************)
(* An instance of ConvergentVerification for TLC: two issues, one of which *)
(* no agent can solve.                                                     *)
(***************************************************************************)
EXTENDS ConvergentVerification, TLC
CONSTANTS i1, i2
=============================================================================
