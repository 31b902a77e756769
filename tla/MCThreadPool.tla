---------------------------- MODULE MCThreadPool ----------------------------
(***************************************************************************)
(* Small instances of ThreadPool for TLC.  No symmetry: the same run       *)
(* checks liveness.                                                        *)
(***************************************************************************)
EXTENDS ThreadPool
=============================================================================
