---------------------------- MODULE MCBikeServer ----------------------------
(***************************************************************************)
(* Small instances of BikeServer for TLC.                                  *)
(***************************************************************************)
EXTENDS BikeServer

\* Every kind of request; the runs about one kind name it in their cfg.
AllKinds == {"mobile", "login", "junk", "unknown"}
=============================================================================
