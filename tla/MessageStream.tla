----------------------------- MODULE MessageStream -----------------------------
(***************************************************************************)
(* What NetworkInterface promises of one connection, with the bytes        *)
(* abstracted away: the requests of a client reach parseEvent whole, once  *)
(* and in order, one at a time, and the first one with a bad length ends   *)
(* the connection.                                                         *)
(***************************************************************************)
EXTENDS Integers, Sequences

CONSTANTS
  Lengths,     \* the lengths a header may announce
  MaxMessage,  \* the longest body the server takes
  BodyOf(_, _) \* BodyOf(m, len): the body of the m-th request, of that length

VARIABLES
  lens,    \* the announced lengths of the requests sent, oldest first
  parsed,  \* the bodies handed to parseEvent, oldest first
  busy,    \* TRUE from a request to its response
  open     \* TRUE until the connection ends

vars == <<lens, parsed, busy, open>>

Good(len) == len \in 1 .. MaxMessage
Following == Len(parsed) + 1

Init == lens = <<>> /\ parsed = <<>> /\ busy = FALSE /\ open = TRUE

Send ==
  /\ open
  /\ \E len \in Lengths : lens' = Append(lens, len)
  /\ UNCHANGED <<parsed, busy, open>>

Deliver ==
  /\ open /\ ~busy
  /\ Following <= Len(lens) /\ Good(lens[Following])
  /\ parsed' = Append(parsed, BodyOf(Following, lens[Following]))
  /\ busy' = TRUE
  /\ UNCHANGED <<lens, open>>

Answer ==
  /\ open /\ busy
  /\ busy' = FALSE
  /\ UNCHANGED <<lens, parsed, open>>

Reject ==
  /\ open /\ ~busy
  /\ Following <= Len(lens) /\ ~Good(lens[Following])
  /\ open' = FALSE
  /\ UNCHANGED <<lens, parsed, busy>>

HangUp == open /\ open' = FALSE /\ UNCHANGED <<lens, parsed, busy>>

Next == Send \/ Deliver \/ Answer \/ Reject \/ HangUp

Spec == Init /\ [][Next]_vars
=============================================================================
