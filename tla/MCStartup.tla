------------------------------ MODULE MCStartup ------------------------------
(***************************************************************************)
(* A small instance of Startup for TLC: liveness is checked, so that the   *)
(* workers are not permuted.                                               *)
(***************************************************************************)
EXTENDS Startup
=============================================================================
