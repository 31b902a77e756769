-------------------------- MODULE MCUserEventHandler --------------------------
(***************************************************************************)
(* Small instances of UserEventHandler for TLC.                            *)
(***************************************************************************)
EXTENDS UserEventHandler, TLC

\* Two codes for the seconds of a behaviour, the first of which comes back.
TwoCodes == [t \in Seconds |-> IF t = 1 THEN 222222 ELSE 111111]

\* Workers and mobiles are interchangeable; codes are not permuted.
HandlerSymmetry == Permutations(Workers) \cup Permutations(Mobiles)
=============================================================================
